---- MODULE Spec2Model ----
(***************************************************************************)
(* Model of the funding DSL text-to-model parsers of jcabot/funding-dsl.   *)
(*                                                                         *)
(* A text is a sequence of lexemes.  Punctuation, white space, digits and  *)
(* the dot are one lexeme per character; a word (keyword, identifier,      *)
(* currency code) is one lexeme.  Positions and lengths are counted in     *)
(* lexemes and are 0-based as in the Python source.                        *)
(*                                                                         *)
(* Python values: None is the empty tuple, any other value x is <<x>>.     *)
(* A string value is the sequence of lexemes between its quotes.           *)
(***************************************************************************)
EXTENDS Integers, Sequences, FiniteSets, TLC

VARIABLES text, doc, parsers, result, second_result, tx_result,
          scan_pos, content_result, block_result,
          configuration, errors, valid, funding_goal, progress,
          threads, aggregate, item_loop, brace_scan, editor, model_file, exporter

parse_vars == <<parsers, result, second_result, tx_result>>

scan_vars == <<scan_pos, content_result, block_result>>

model_vars == <<configuration, errors, valid, funding_goal, progress>>

tool_vars == <<threads, aggregate, item_loop, brace_scan, editor, model_file, exporter>>

vars == <<text, doc, parse_vars, scan_vars, model_vars, tool_vars>>

----------------------------------------------------------------------------
(* Python values *)

None == <<>>

Val(x) == <<x>>

DictGet(d, k, default) == IF k \in DOMAIN d THEN d[k] ELSE default

TruthyNum(v) == v # None /\ v[1] # 0

TruthyStr(v) == v # None /\ v[1] # <<>>

TruthyBool(v) == v # None /\ v[1]

----------------------------------------------------------------------------
(* Lexemes and 0-based sequence access *)

QT == "\""

NL == "\n"

At(s, i) == s[i + 1]

Slice(s, a, b) == IF a >= b THEN <<>> ELSE SubSeq(s, a + 1, b)

From(s, a) == IF a >= Len(s) THEN <<>> ELSE SubSeq(s, a + 1, Len(s))

IsSpace(c) == c \in {" ", NL}

Digits == {"0", "1", "2", "3", "4", "5", "6", "7", "8", "9"}

IsNumChar(c) == c \in Digits \cup {"."}

UpperWords == {"USD", "EUR", "GBP", "CAD", "AUD", "XYZ"}

IsUpper(c) == c \in UpperWords

\* a regular expression that starts with the word kw matches inside any
\* lexeme that ends with kw
SuffixPairs == {<<"min_amount", "amount">>, <<"max_amount", "amount">>}

EndsWith(c, kw) == c = kw \/ <<c, kw>> \in SuffixPairs

Min(S) == CHOOSE x \in S : \A y \in S : x <= y

\* \s* from position i: the first position at or after i that is not white space
SkipSpaces(s, i) ==
    Min({j \in i..Len(s) : j = Len(s) \/ ~IsSpace(At(s, j))})

\* [\d.]+ from position i: the end of the run of digits and dots
NumRunEnd(s, i) ==
    Min({j \in i..Len(s) : j = Len(s) \/ ~IsNumChar(At(s, j))})

\* [^"]* from position i: the position of the next quote, Len(s) if none
NextQuote(s, i) ==
    Min({j \in i..Len(s) : j = Len(s) \/ At(s, j) = QT})

NoMatch == [found |-> FALSE]

----------------------------------------------------------------------------
(* float(): a run of digits and dots is a number when it has at most one   *)
(* dot and at least one digit; values are kept in hundredths               *)

DigitSeq == <<"0", "1", "2", "3", "4", "5", "6", "7", "8", "9">>

DigitVal(c) == (CHOOSE i \in 1..10 : DigitSeq[i] = c) - 1

RECURSIVE IntOf(_)
IntOf(ds) ==
    IF ds = <<>> THEN 0
    ELSE 10 * IntOf(SubSeq(ds, 1, Len(ds) - 1)) + DigitVal(ds[Len(ds)])

DotsOf(run) == {i \in 1..Len(run) : run[i] = "."}

FloatOk(run) == Cardinality(DotsOf(run)) <= 1 /\ Len(run) > Cardinality(DotsOf(run))

Float(run) ==
    IF DotsOf(run) = {} THEN 100 * IntOf(run)
    ELSE LET d == CHOOSE i \in DotsOf(run) : TRUE
             frac == SubSeq(run, d + 1, Len(run))
             f1 == IF Len(frac) >= 1 THEN DigitVal(frac[1]) ELSE 0
             f2 == IF Len(frac) >= 2 THEN DigitVal(frac[2]) ELSE 0
         IN 100 * IntOf(SubSeq(run, 1, d - 1)) + 10 * f1 + f2

\* int(x) of a float kept in hundredths
PyInt(x) == x \div 100

----------------------------------------------------------------------------
(* The regular expressions of the parser, each as the match it yields at   *)
(* a given start position.  Every one is deterministic once its start is   *)
(* fixed.                                                                  *)

\* an opening quote at i and the next quote at c, with text between them
QuotedUpTo(s, i, c) ==
    IF i < Len(s) /\ At(s, i) = QT /\ c < Len(s) /\ c > i + 1
    THEN [found |-> TRUE, group1 |-> Slice(s, i + 1, c), end |-> c + 1]
    ELSE NoMatch

\* "([^"]+)"
QuotedAt(s, i) == QuotedUpTo(s, i, NextQuote(s, i + 1))

\* the match m followed by \s*\{, the white space ending at d
ThenBraceAt(s, m, d) ==
    IF d < Len(s) /\ At(s, d) = "{"
    THEN [found |-> TRUE, group1 |-> m.group1, end |-> d + 1]
    ELSE NoMatch

ThenBrace(s, m) ==
    IF m.found THEN ThenBraceAt(s, m, SkipSpaces(s, m.end)) ELSE NoMatch

\* the match m followed by \s+([A-Z]+), the white space ending at f
ThenUpperAt(s, m, f) ==
    IF f > m.end /\ f < Len(s) /\ IsUpper(At(s, f))
    THEN [found |-> TRUE, group1 |-> m.group1, group2 |-> At(s, f), end |-> f + 1]
    ELSE NoMatch

ThenUpper(s, m) ==
    IF m.found THEN ThenUpperAt(s, m, SkipSpaces(s, m.end)) ELSE NoMatch

\* the key match k and the value match v of one "key" "value" pair
KeyValue(k, v) ==
    IF v.found
    THEN [found |-> TRUE, group1 |-> k.group1, group2 |-> v.group1, end |-> v.end]
    ELSE NoMatch

\* the match k followed by \s+"([^"]+)", the white space ending at b
ThenQuotedAt(s, k, b) ==
    IF b > k.end THEN KeyValue(k, QuotedAt(s, b)) ELSE NoMatch

ThenQuoted(s, k) ==
    IF k.found THEN ThenQuotedAt(s, k, SkipSpaces(s, k.end)) ELSE NoMatch

\* "([^"]+)"\s+"([^"]+)"
KeyValueAt(s, i) == ThenQuoted(s, QuotedAt(s, i))

\* The other expressions start with a property name at position i; b is
\* the first position behind the white space that follows the name.

\* name\s+"([^"]+)"
StringPropAt(s, i, b) == IF b > i + 1 THEN QuotedAt(s, b) ELSE NoMatch

\* name\s+"([^"]+)"\s*\{
HeadAt(s, i, b) == ThenBrace(s, StringPropAt(s, i, b))

\* name\s+([A-Z]+)
KeywordPropAt(s, i, b) ==
    IF b > i + 1 /\ b < Len(s) /\ IsUpper(At(s, b))
    THEN [found |-> TRUE, group1 |-> At(s, b), end |-> b + 1]
    ELSE NoMatch

\* [\d.]+ from b to e
NumRunAt(s, b, e) ==
    IF e > b THEN [found |-> TRUE, group1 |-> Slice(s, b, e), end |-> e]
    ELSE NoMatch

\* name\s+([\d.]+)
NumberPropAt(s, i, b) ==
    IF b > i + 1 THEN NumRunAt(s, b, NumRunEnd(s, b)) ELSE NoMatch

\* name\s+([\d.]+)\s+([A-Z]+)
AmountAt(s, i, b) == ThenUpper(s, NumberPropAt(s, i, b))

\* name\s+(true|false)
BooleanPropAt(s, i, b) ==
    IF b > i + 1 /\ b < Len(s) /\ At(s, b) \in {"true", "false"}
    THEN [found |-> TRUE, group1 |-> At(s, b), end |-> b + 1]
    ELSE NoMatch

\* name\s*\{
BlockOpenAt(s, i, b) ==
    IF b < Len(s) /\ At(s, b) = "{" THEN [found |-> TRUE, end |-> b + 1]
    ELSE NoMatch

\* (.*?)<close> behind the opening delimiter at b, with re.DOTALL
UpToClose(s, b, ends) ==
    IF ends = {} THEN NoMatch
    ELSE [found |-> TRUE, group1 |-> Slice(s, b + 1, Min(ends)), end |-> Min(ends) + 1]

\* name\s*<open>(.*?)<close>
DelimitedAt(s, i, b, open, close) ==
    IF b < Len(s) /\ At(s, b) = open
    THEN UpToClose(s, b, {j \in (b + 1)..(Len(s) - 1) : At(s, j) = close})
    ELSE NoMatch

\* a compiled pattern: which of the expressions above, and for which name
Pattern(kind, name) == [kind |-> kind, name |-> name]

NamedAt(s, i, b, kind) ==
    CASE kind = "string" -> StringPropAt(s, i, b)
      [] kind = "head" -> HeadAt(s, i, b)
      [] kind = "keyword" -> KeywordPropAt(s, i, b)
      [] kind = "number" -> NumberPropAt(s, i, b)
      [] kind = "amount" -> AmountAt(s, i, b)
      [] kind = "boolean" -> BooleanPropAt(s, i, b)
      [] kind = "block" -> BlockOpenAt(s, i, b)
      [] kind = "braces" -> DelimitedAt(s, i, b, "{", "}")
      [] kind = "brackets" -> DelimitedAt(s, i, b, "[", "]")

MatchAt(s, i, pattern) ==
    CASE pattern.kind = "quoted" -> QuotedAt(s, i)
      [] pattern.kind = "key_value" -> KeyValueAt(s, i)
      [] OTHER -> IF EndsWith(At(s, i), pattern.name)
                  THEN NamedAt(s, i, SkipSpaces(s, i + 1), pattern.kind)
                  ELSE NoMatch

\* the leftmost of the matches ms, indexed by start position
Leftmost(ms) ==
    IF \A i \in DOMAIN ms : ~ms[i].found THEN NoMatch
    ELSE ms[Min({i \in DOMAIN ms : ms[i].found})]

\* re.search(pattern, s, pos): the leftmost match that starts at or after pos
re_search_from(s, pattern, pos) ==
    Leftmost([i \in pos..(Len(s) - 1) |-> MatchAt(s, i, pattern)])

\* re.search(pattern, s): the leftmost match
re_search(s, pattern) == re_search_from(s, pattern, 0)

----------------------------------------------------------------------------
(* Comment removal of _simple_parse *)

\* the end of the line that contains position i ($ under re.MULTILINE)
LineEnd(s, i) ==
    Min({j \in i..Len(s) : j = Len(s) \/ At(s, j) = NL})

\* re.sub(r'//.*?$', '', text, flags=re.MULTILINE): the leftmost match is
\* removed and the substitution goes on behind it
RECURSIVE strip_line_comments(_)
strip_line_comments(s) ==
    LET starts == {i \in 0..(Len(s) - 2) : At(s, i) = "/" /\ At(s, i + 1) = "/"}
    IN IF starts = {} THEN s
       ELSE Slice(s, 0, Min(starts))
            \o strip_line_comments(From(s, LineEnd(s, Min(starts) + 2)))

\* the positions j >= i at which "*/" starts
BlockCloses(s, i) ==
    {j \in i..(Len(s) - 2) : At(s, j) = "*" /\ At(s, j + 1) = "/"}

\* re.sub(r'/\*.*?\*/', '', text, flags=re.DOTALL)
RECURSIVE strip_block_comments(_)
strip_block_comments(s) ==
    LET starts == {i \in 0..(Len(s) - 2) :
                      At(s, i) = "/" /\ At(s, i + 1) = "*" /\ BlockCloses(s, i + 2) # {}}
    IN IF starts = {} THEN s
       ELSE Slice(s, 0, Min(starts))
            \o strip_block_comments(From(s, Min(BlockCloses(s, Min(starts) + 2)) + 2))

remove_comments(s) == strip_block_comments(strip_line_comments(s))

----------------------------------------------------------------------------
(* Property extractors *)

\* match.group(1) if match else None
group1_or_none(match) == IF match.found THEN Val(match.group1) ELSE None

_extract_string_property(s, property_name) ==
    group1_or_none(re_search(s, Pattern("string", property_name)))

_extract_keyword_property(s, property_name) ==
    group1_or_none(re_search(s, Pattern("keyword", property_name)))

\* float(match.group(1)) if match else None; float() raises ValueError on a
\* malformed run
float_or_none(match) ==
    IF ~match.found THEN [raised |-> FALSE, value |-> None]
    ELSE IF FloatOk(match.group1)
         THEN [raised |-> FALSE, value |-> Val(Float(match.group1))]
         ELSE [raised |-> TRUE, value |-> None]

_extract_number_property(s, property_name) ==
    float_or_none(re_search(s, Pattern("number", property_name)))

\* match.group(1) == 'true' if match else None
bool_or_none(match) == IF match.found THEN Val(match.group1 = "true") ELSE None

_extract_boolean_property(s, property_name) ==
    bool_or_none(re_search(s, Pattern("boolean", property_name)))

\* re.finditer(pattern, s): the matches from position pos on, left to right
RECURSIVE finditer(_, _, _)
finditer_next(s, pattern, match) ==
    IF match.found THEN <<match>> \o finditer(s, pattern, match.end) ELSE <<>>

finditer(s, pattern, pos) ==
    finditer_next(s, pattern, re_search_from(s, pattern, pos))

\* config[key] = value on an insertion-ordered dict
DictSet(d, key, value) ==
    IF \E i \in 1..Len(d) : d[i][1] = key
    THEN [i \in 1..Len(d) |-> IF d[i][1] = key THEN <<key, value>> ELSE d[i]]
    ELSE Append(d, <<key, value>>)

RECURSIVE DictFromMatches(_, _)
DictFromMatches(ms, n) ==
    IF n = 0 THEN <<>>
    ELSE DictSet(DictFromMatches(ms, n - 1), ms[n].group1, ms[n].group2)

\* the loop over re.finditer(r'"([^"]+)"\s+"([^"]+)"', config_text)
DictOf(ms) == DictFromMatches(ms, Len(ms))

config_of(config_match) ==
    IF ~config_match.found THEN <<>>
    ELSE DictOf(finditer(config_match.group1, Pattern("key_value", ""), 0))

_extract_config_block(s) == config_of(re_search(s, Pattern("braces", "config")))

\* [m.group(1) for m in re.finditer(r'"([^"]+)"', list_text)]
groups_of(ms) == [k \in 1..Len(ms) |-> ms[k].group1]

list_of(match) ==
    IF ~match.found THEN <<>>
    ELSE groups_of(finditer(match.group1, Pattern("quoted", ""), 0))

_extract_string_list(s, property_name) ==
    list_of(re_search(s, Pattern("brackets", property_name)))

----------------------------------------------------------------------------
(* Block scanner *)

\* the first position at or after pos that holds a brace, Len(s) if none:
\* the loop leaves brace_count unchanged on every other character
NextBrace(s, pos) ==
    Min({j \in pos..Len(s) : j = Len(s) \/ At(s, j) \in {"{", "}"}})

\* a scan that, unlike the loop of the source, hands back what it has read
\* when the text ends inside the block
RECURSIVE balanced_scan_partial(_, _, _, _)
balanced_scan_partial(s, start_pos, pos, brace_count) ==
    IF pos >= Len(s) THEN From(s, start_pos + 1)
    ELSE IF At(s, pos) = "{"
         THEN balanced_scan_partial(s, start_pos, NextBrace(s, pos + 1), brace_count + 1)
         ELSE IF brace_count - 1 = 0
              THEN Slice(s, start_pos + 1, pos)
              ELSE balanced_scan_partial(s, start_pos, NextBrace(s, pos + 1),
                                         brace_count - 1)

\* the while loop of _extract_balanced_content, entered at a brace position
RECURSIVE balanced_scan(_, _, _, _)
balanced_scan(s, start_pos, pos, brace_count) ==
    IF pos >= Len(s) THEN <<>>
    ELSE IF At(s, pos) = "{"
         THEN balanced_scan(s, start_pos, NextBrace(s, pos + 1), brace_count + 1)
         ELSE IF brace_count - 1 = 0
              THEN Slice(s, start_pos + 1, pos)
              ELSE balanced_scan(s, start_pos, NextBrace(s, pos + 1), brace_count - 1)

\* an extraction that, unlike the source, does not count the depth and ends
\* at the first closing brace
content_to_first_close(s, start_pos) ==
    IF start_pos >= Len(s) \/ At(s, start_pos) # "{" THEN <<>>
    ELSE IF \A j \in (start_pos + 1)..(Len(s) - 1) : At(s, j) # "}" THEN <<>>
    ELSE Slice(s, start_pos + 1,
               Min({j \in (start_pos + 1)..(Len(s) - 1) : At(s, j) = "}"}))

_extract_balanced_content(s, start_pos) ==
    IF start_pos >= Len(s) \/ At(s, start_pos) # "{" THEN <<>>
    ELSE balanced_scan(s, start_pos, start_pos, 0)

\* the content behind the "{" that ends the match, None without a match
content_behind(s, match) ==
    IF ~match.found THEN None
    ELSE Val(_extract_balanced_content(s, match.end - 1))

_extract_balanced_block(s, block_name) ==
    content_behind(s, re_search(s, Pattern("block", block_name)))

----------------------------------------------------------------------------
(* Item extraction loops of FundingDSLParser.  Each returns the list of    *)
(* item dicts, or raised = TRUE when a float() inside the loop raises.     *)

Items(l) == [raised |-> FALSE, items |-> l]

Raised == [raised |-> TRUE, items |-> <<>>]

Cons(item, rest) ==
    IF rest.raised THEN Raised ELSE Items(<<item>> \o rest.items)

\* Each while loop is written as two steps: the search for the next item
\* head from pos, and the item dict built from the balanced body behind the
\* head, followed by the rest of the loop.

RECURSIVE beneficiaries_loop(_, _)
\* an item dict that, unlike the source, reads its properties from the text
\* of the whole block
beneficiary_item_from_block(beneficiaries_text, name, start_pos, props_text) ==
    <<[name |-> name,
       email |-> _extract_string_property(beneficiaries_text, "email"),
       github |-> _extract_string_property(beneficiaries_text, "github"),
       website |-> _extract_string_property(beneficiaries_text, "website"),
       description |-> _extract_string_property(beneficiaries_text, "description")]>>
    \o beneficiaries_loop(beneficiaries_text, start_pos + Len(props_text) + 2)

beneficiary_item(beneficiaries_text, name, start_pos, props_text) ==
    <<[name |-> name,
       email |-> _extract_string_property(props_text, "email"),
       github |-> _extract_string_property(props_text, "github"),
       website |-> _extract_string_property(props_text, "website"),
       description |-> _extract_string_property(props_text, "description")]>>
    \o beneficiaries_loop(beneficiaries_text, start_pos + Len(props_text) + 2)

beneficiary_match(beneficiaries_text, pos, match) ==
    IF ~match.found THEN <<>>
    ELSE beneficiary_item(beneficiaries_text, match.group1, pos + match.end - 1,
                          _extract_balanced_content(beneficiaries_text,
                                                    pos + match.end - 1))

beneficiaries_loop(beneficiaries_text, pos) ==
    beneficiary_match(beneficiaries_text, pos,
                      re_search(From(beneficiaries_text, pos), Pattern("head", "beneficiary")))

\* the loop runs on the block content unless it is None or empty
_extract_beneficiaries(s) ==
    IF TruthyStr(_extract_balanced_block(s, "beneficiaries"))
    THEN beneficiaries_loop(_extract_balanced_block(s, "beneficiaries")[1], 0)
    ELSE <<>>

all_platforms ==
    <<"github_sponsors", "patreon", "ko_fi", "open_collective", "buy_me_a_coffee",
      "liberapay", "paypal", "tidelift", "issuehunt", "community_bridge", "polar",
      "thanks_dev", "custom">>

\* source_data['url'] is set for the custom platform only
with_url(base, props_text) ==
    IF base.platform = "custom"
    THEN base @@ [url |-> _extract_string_property(props_text, "url")]
    ELSE base

RECURSIVE platform_loop(_, _, _)
source_item(sources_text, platform, username, start_pos, props_text) ==
    <<with_url([platform |-> platform,
                username |-> username,
                type |-> _extract_keyword_property(props_text, "type"),
                active |-> _extract_boolean_property(props_text, "active"),
                config |-> _extract_config_block(props_text)],
               props_text)>>
    \o platform_loop(sources_text, platform, start_pos + Len(props_text) + 2)

source_match(sources_text, platform, pos, match) ==
    IF ~match.found THEN <<>>
    ELSE source_item(sources_text, platform, match.group1, pos + match.end - 1,
                     _extract_balanced_content(sources_text, pos + match.end - 1))

platform_loop(sources_text, platform, pos) ==
    source_match(sources_text, platform, pos,
                 re_search(From(sources_text, pos), Pattern("head", platform)))

RECURSIVE Flatten(_)
Flatten(ss) == IF ss = <<>> THEN <<>> ELSE Head(ss) \o Flatten(Tail(ss))

\* for platform in all_platforms
sources_loop(sources_text) ==
    Flatten([k \in 1..Len(all_platforms) |-> platform_loop(sources_text, all_platforms[k], 0)])

_extract_sources(s) ==
    IF TruthyStr(_extract_balanced_block(s, "sources"))
    THEN sources_loop(_extract_balanced_block(s, "sources")[1])
    ELSE <<>>

\* the two conditional expressions on an amount match; float() may raise
amount_of(m) ==
    IF ~m.found THEN [raised |-> FALSE, value |-> 0, currency |-> "USD"]
    ELSE IF FloatOk(m.group1)
         THEN [raised |-> FALSE, value |-> Float(m.group1), currency |-> m.group2]
         ELSE [raised |-> TRUE, value |-> 0, currency |-> m.group2]

\* re.search(r'<name>\s+([\d.]+)\s+([A-Z]+)', props_text)
extract_amount(props_text, name) ==
    amount_of(re_search(props_text, Pattern("amount", name)))

RECURSIVE tiers_loop(_, _)
tier_item(tiers_text, name, start_pos, props_text, amount, max_sponsors) ==
    IF amount.raised \/ max_sponsors.raised THEN Raised
    ELSE Cons([name |-> name,
               amount |-> [value |-> amount.value, currency |-> amount.currency],
               description |-> _extract_string_property(props_text, "description"),
               max_sponsors |-> max_sponsors.value,
               benefits |-> _extract_string_list(props_text, "benefits")],
              tiers_loop(tiers_text, start_pos + Len(props_text) + 2))

tier_body(tiers_text, name, start_pos, props_text) ==
    tier_item(tiers_text, name, start_pos, props_text,
              extract_amount(props_text, "amount"),
              _extract_number_property(props_text, "max_sponsors"))

tier_match(tiers_text, pos, match) ==
    IF ~match.found THEN Items(<<>>)
    ELSE tier_body(tiers_text, match.group1, pos + match.end - 1,
                   _extract_balanced_content(tiers_text, pos + match.end - 1))

tiers_loop(tiers_text, pos) ==
    tier_match(tiers_text, pos, re_search(From(tiers_text, pos), Pattern("head", "tier")))

_extract_tiers(s) ==
    IF TruthyStr(_extract_balanced_block(s, "tiers"))
    THEN tiers_loop(_extract_balanced_block(s, "tiers")[1], 0)
    ELSE Items(<<>>)

RECURSIVE goals_loop(_, _)
goal_item(goals_text, name, start_pos, props_text, target, current) ==
    IF target.raised \/ current.raised THEN Raised
    ELSE Cons([name |-> name,
               target_amount |-> [value |-> target.value, currency |-> target.currency],
               current_amount |-> [value |-> current.value, currency |-> current.currency],
               description |-> _extract_string_property(props_text, "description"),
               deadline |-> _extract_string_property(props_text, "deadline")],
              goals_loop(goals_text, start_pos + Len(props_text) + 2))

goal_body(goals_text, name, start_pos, props_text) ==
    goal_item(goals_text, name, start_pos, props_text,
              extract_amount(props_text, "target"),
              extract_amount(props_text, "current"))

goal_match(goals_text, pos, match) ==
    IF ~match.found THEN Items(<<>>)
    ELSE goal_body(goals_text, match.group1, pos + match.end - 1,
                   _extract_balanced_content(goals_text, pos + match.end - 1))

goals_loop(goals_text, pos) ==
    goal_match(goals_text, pos, re_search(From(goals_text, pos), Pattern("head", "goal")))

_extract_goals(s) ==
    IF TruthyStr(_extract_balanced_block(s, "goals"))
    THEN goals_loop(_extract_balanced_block(s, "goals")[1], 0)
    ELSE Items(<<>>)

----------------------------------------------------------------------------
(* _simple_parse: raised = TRUE stands for an exception leaving the method *)

\* the config_data dict; a missing funding header or a float() that raised
\* leaves the method with an exception
config_data_of(s, funding_match, min_amount, max_amount, tiers, goals) ==
    IF ~funding_match.found THEN [raised |-> TRUE]
    ELSE IF min_amount.raised \/ max_amount.raised \/ tiers.raised \/ goals.raised
         THEN [raised |-> TRUE]
         ELSE [raised |-> FALSE,
               project_name |-> funding_match.group1,
               description |-> _extract_string_property(s, "description"),
               currency |-> _extract_keyword_property(s, "currency"),
               min_amount |-> min_amount.value,
               max_amount |-> max_amount.value,
               beneficiaries |-> _extract_beneficiaries(s),
               sources |-> _extract_sources(s),
               tiers |-> tiers.items,
               goals |-> goals.items]

\* the extractions on the text without comments
parse_stripped(s) ==
    config_data_of(s,
                   re_search(s, Pattern("head", "funding")),
                   _extract_number_property(s, "min_amount"),
                   _extract_number_property(s, "max_amount"),
                   _extract_tiers(s),
                   _extract_goals(s))

_simple_parse(input) == parse_stripped(remove_comments(input))

----------------------------------------------------------------------------
(* Lookup tables of FundingDSLParser.__init__ and the model builder *)

platform_mapping ==
    [github_sponsors |-> "GITHUB_SPONSORS", patreon |-> "PATREON", ko_fi |-> "KO_FI",
     open_collective |-> "OPEN_COLLECTIVE", buy_me_a_coffee |-> "BUY_ME_A_COFFEE",
     liberapay |-> "LIBERAPAY", paypal |-> "PAYPAL", tidelift |-> "TIDELIFT",
     issuehunt |-> "ISSUEHUNT", community_bridge |-> "COMMUNITY_BRIDGE",
     polar |-> "POLAR", thanks_dev |-> "THANKS_DEV", custom |-> "CUSTOM"]

funding_type_mapping ==
    [one_time |-> "ONE_TIME", recurring |-> "RECURRING", both |-> "BOTH"]

currency_mapping ==
    [USD |-> "USD", EUR |-> "EUR", GBP |-> "GBP", CAD |-> "CAD", AUD |-> "AUD"]

\* FundingDSLParser(): the instance holds the three tables
FundingDSLParser ==
    [platform_mapping |-> platform_mapping,
     funding_type_mapping |-> funding_type_mapping,
     currency_mapping |-> currency_mapping]

\* mapping.get(key, default) for a key that is a Python value
MapGet(mapping, key, default) ==
    IF key # None /\ key[1] \in DOMAIN mapping THEN mapping[key[1]] ELSE default

FundingAmount(value, currency) == [value |-> value, currency |-> currency]

ValidDates == {"2024-12-31", "2024-09-01"}

\* a conversion that takes every string for a date
strptime_any(s) == IF Len(s) = 1 THEN Val(s[1]) ELSE None

\* datetime.strptime(s, '%Y-%m-%d'): None stands for the ValueError branch
strptime(s) == IF Len(s) = 1 /\ s[1] \in ValidDates THEN Val(s[1]) ELSE None

build_beneficiary(ben_data) ==
    [name |-> ben_data.name,
     email |-> DictGet(ben_data, "email", None),
     github_username |-> DictGet(ben_data, "github", None),
     website |-> DictGet(ben_data, "website", None),
     description |-> DictGet(ben_data, "description", None)]

build_source(self, source_data) ==
    [platform |-> MapGet(self.platform_mapping, Val(source_data.platform), "CUSTOM"),
     username |-> source_data.username,
     funding_type |->
         MapGet(self.funding_type_mapping, DictGet(source_data, "type", Val("both")), "BOTH"),
     is_active |-> DictGet(source_data, "active", Val(TRUE)),
     custom_url |-> DictGet(source_data, "url", None),
     platform_specific_config |-> DictGet(source_data, "config", <<>>)]

build_tier(self, tier_data) ==
    [name |-> tier_data.name,
     amount |-> FundingAmount(tier_data.amount.value,
                              MapGet(self.currency_mapping, Val(tier_data.amount.currency), "USD")),
     description |-> DictGet(tier_data, "description", None),
     benefits |-> DictGet(tier_data, "benefits", <<>>),
     max_sponsors |->
         IF TruthyNum(DictGet(tier_data, "max_sponsors", None))
         THEN Val(PyInt(tier_data.max_sponsors[1]))
         ELSE None,
     is_active |-> Val(TRUE)]

build_goal(self, goal_data) ==
    [name |-> goal_data.name,
     target_amount |->
         FundingAmount(goal_data.target_amount.value,
                       MapGet(self.currency_mapping, Val(goal_data.target_amount.currency), "USD")),
     current_amount |->
         FundingAmount(goal_data.current_amount.value,
                       MapGet(self.currency_mapping, Val(goal_data.current_amount.currency), "USD")),
     description |-> DictGet(goal_data, "description", None),
     deadline |->
         IF TruthyStr(DictGet(goal_data, "deadline", None))
         THEN strptime(goal_data.deadline[1])
         ELSE None,
     is_reached |-> FALSE]

_build_configuration(self, config_data) ==
    LET preferred_currency ==
            MapGet(self.currency_mapping, DictGet(config_data, "currency", Val("USD")), "USD")
    IN [project_name |-> config_data.project_name,
        description |-> DictGet(config_data, "description", None),
        preferred_currency |-> preferred_currency,
        min_amount |->
            IF TruthyNum(DictGet(config_data, "min_amount", None))
            THEN Val(FundingAmount(config_data.min_amount[1], preferred_currency))
            ELSE None,
        max_amount |->
            IF TruthyNum(DictGet(config_data, "max_amount", None))
            THEN Val(FundingAmount(config_data.max_amount[1], preferred_currency))
            ELSE None,
        beneficiaries |->
            [k \in 1..Len(config_data.beneficiaries) |->
                build_beneficiary(config_data.beneficiaries[k])],
        funding_sources |->
            [k \in 1..Len(config_data.sources) |-> build_source(self, config_data.sources[k])],
        tiers |-> [k \in 1..Len(config_data.tiers) |-> build_tier(self, config_data.tiers[k])],
        goals |-> [k \in 1..Len(config_data.goals) |-> build_goal(self, config_data.goals[k])]]

\* the model built from config_data unless _simple_parse raised
configuration_of(self, config_data) ==
    IF config_data.raised THEN [raised |-> TRUE]
    ELSE [raised |-> FALSE, config |-> _build_configuration(self, config_data)]

\* parse_text: every exception is re-raised as ParseError
parse_text(self, input) == configuration_of(self, _simple_parse(input))

\* FundingConfiguration.get_unreached_goals
get_unreached_goals(config) == SelectSeq(config.goals, LAMBDA goal : ~goal.is_reached)

\* FundingConfiguration.get_active_sources
get_active_sources(config) ==
    SelectSeq(config.funding_sources, LAMBDA source : TruthyBool(source.is_active))

----------------------------------------------------------------------------
(* FundingModelValidator and FundingGoal.progress_percentage.  A message   *)
(* is the tuple of its fixed text and, for an f-string, the value put in.  *)

\* FundingPlatform: the value of each member
FundingPlatform ==
    [GITHUB_SPONSORS |-> "github", PATREON |-> "patreon",
     OPEN_COLLECTIVE |-> "open_collective", KO_FI |-> "ko_fi",
     BUY_ME_A_COFFEE |-> "buy_me_a_coffee", LIBERAPAY |-> "liberapay",
     PAYPAL |-> "paypal", TIDELIFT |-> "tidelift", ISSUEHUNT |-> "issuehunt",
     COMMUNITY_BRIDGE |-> "community_bridge", POLAR |-> "polar",
     THANKS_DEV |-> "thanks_dev", CUSTOM |-> "custom"]

valid_platforms == <<"npm", "pypi", "rubygems", "maven", "packagist", "nuget">>

\* errors.append(message) when the condition holds
ErrorIf(cond, message) == IF cond THEN <<message>> ELSE <<>>

\* str.split('/')[0]
FirstPart(str) ==
    IF \E i \in 1..Len(str) : str[i] = "/"
    THEN SubSeq(str, 1, Min({i \in 1..Len(str) : str[i] = "/"}) - 1)
    ELSE str

\* a comparison of the first lexeme only
starts_with_first(str, prefix) == str # <<>> /\ str[1] = prefix[1]

\* str.startswith(prefix)
startswith(str, prefix) ==
    Len(str) >= Len(prefix) /\ SubSeq(str, 1, Len(prefix)) = prefix

\* the tidelift branch without the check of the registry
tidelift_slash_only(username) ==
    ErrorIf(\A i \in 1..Len(username) : username[i] # "/",
            <<"Tidelift username must be in format 'platform-name/package-name'">>)

\* the checks of the tidelift branch: a missing '/' or else the registry
tidelift_errors(username) ==
    IF \A i \in 1..Len(username) : username[i] # "/"
    THEN << <<"Tidelift username must be in format 'platform-name/package-name'">> >>
    ELSE ErrorIf(\A n \in 1..Len(valid_platforms) :
                     FirstPart(username) # <<valid_platforms[n]>>,
                 <<"Tidelift platform name must be one of", valid_platforms>>)

\* a loop body that stops at the first violation of a source
first_source_error(source) ==
    IF source.username = <<>>
    THEN << <<"Username is required for", FundingPlatform[source.platform]>> >>
    ELSE IF source.platform = "CUSTOM" /\ ~TruthyStr(source.custom_url)
         THEN << <<"Custom URL is required for custom platforms">> >>
         ELSE IF source.platform = "TIDELIFT" THEN tidelift_errors(source.username)
              ELSE ErrorIf(source.platform = "THANKS_DEV"
                               /\ ~startswith(source.username, <<"u", "/", "gh", "/">>),
                           <<"Thanks.dev username must be in format 'u/gh/username'">>)

\* the body of the loop over config.funding_sources
source_errors(source) ==
    ErrorIf(source.username = <<>>,
            <<"Username is required for", FundingPlatform[source.platform]>>)
    \o ErrorIf(source.platform = "CUSTOM" /\ ~TruthyStr(source.custom_url),
               <<"Custom URL is required for custom platforms">>)
    \o (IF source.platform = "TIDELIFT" THEN tidelift_errors(source.username) ELSE <<>>)
    \o ErrorIf(source.platform = "THANKS_DEV"
                   /\ ~startswith(source.username, <<"u", "/", "gh", "/">>),
               <<"Thanks.dev username must be in format 'u/gh/username'">>)

\* a comparison of the first two names only
first_two_repeat(l) == Len(l) >= 2 /\ l[1].name = l[2].name

\* len(names) != len(set(names))
NamesRepeat(l) == Len(l) # Cardinality({l[k].name : k \in 1..Len(l)})

\* the same checks and one more, of min_amount against max_amount
configuration_errors_with_limits(config) ==
    ErrorIf(config.project_name = <<>>, <<"Project name is required">>)
    \o ErrorIf(config.beneficiaries = <<>>, <<"At least one beneficiary is required">>)
    \o ErrorIf(config.funding_sources = <<>>,
               <<"At least one funding source is required">>)
    \o ErrorIf(config.min_amount # None /\ config.max_amount # None
                   /\ config.min_amount[1].value > config.max_amount[1].value,
               <<"min_amount must not exceed max_amount">>)

\* the checks of the configuration's own fields
configuration_errors(config) ==
    ErrorIf(config.project_name = <<>>, <<"Project name is required">>)
    \o ErrorIf(config.beneficiaries = <<>>, <<"At least one beneficiary is required">>)
    \o ErrorIf(config.funding_sources = <<>>,
               <<"At least one funding source is required">>)

\* FundingModelValidator.validate_configuration
validate_configuration(config) ==
    configuration_errors(config)
    \o Flatten([k \in 1..Len(config.funding_sources) |->
                   source_errors(config.funding_sources[k])])
    \o ErrorIf(NamesRepeat(config.tiers), <<"Funding tier names must be unique">>)
    \o ErrorIf(NamesRepeat(config.goals), <<"Funding goal names must be unique">>)

\* FundingModelValidator.is_valid_configuration
is_valid_configuration(config) == Len(validate_configuration(config)) = 0

\* a quotient of two floats, kept exact as a reduced fraction
RECURSIVE GCD(_, _)
GCD(a, b) == IF b = 0 THEN a ELSE GCD(b, a % b)

Fraction(n, d) == [num |-> n \div GCD(n, d), den |-> d \div GCD(n, d)]

\* min(x, 100.0)
CapAt100(x) == IF x.num > 100 * x.den THEN Fraction(100, 1) ELSE x

\* min((current / target) * 100, 100.0)
progress_quotient(goal) ==
    CapAt100(Fraction(goal.current_amount.value * 100, goal.target_amount.value))

\* the property without its guard: the division raises ZeroDivisionError
progress_unguarded(goal) ==
    IF goal.target_amount.value = 0 THEN [raised |-> TRUE]
    ELSE [raised |-> FALSE, value |-> progress_quotient(goal)]

\* FundingGoal.progress_percentage
progress_percentage(goal) ==
    IF goal.target_amount.value = 0
    THEN [raised |-> FALSE, value |-> Fraction(0, 1)]
    ELSE [raised |-> FALSE, value |-> progress_quotient(goal)]

----------------------------------------------------------------------------
(* The grammar engine of FundingDSLTextXParser.  The grammar file is not   *)
(* part of the sources; the parse below follows the grammar sketch of the  *)
(* specification: white space and comments are skipped between lexemes,    *)
(* the properties of a block may come in any order.                        *)

TxFail == [ok |-> FALSE]

CurrencyWords == {"USD", "EUR", "GBP", "CAD", "AUD"}

TypeWords == {"one_time", "recurring", "both"}

PlatformWords ==
    {"github_sponsors", "patreon", "ko_fi", "open_collective", "buy_me_a_coffee",
     "liberapay", "paypal", "tidelift", "issuehunt", "community_bridge", "polar",
     "thanks_dev"}

TxGrammar ==
    [funding |-> [description |-> "string", currency |-> "currency",
                  min_amount |-> "number", max_amount |-> "number",
                  beneficiaries |-> "items", sources |-> "items",
                  tiers |-> "items", goals |-> "items"],
     beneficiary |-> [email |-> "string", github |-> "string",
                      website |-> "string", description |-> "string"],
     source |-> [type |-> "ftype", active |-> "bool", config |-> "config"],
     custom |-> [url |-> "string", type |-> "ftype", active |-> "bool",
                 config |-> "config"],
     tier |-> [amount |-> "amount", description |-> "string",
               max_sponsors |-> "number", benefits |-> "list"],
     goal |-> [target |-> "amount", current |-> "amount",
               description |-> "string", deadline |-> "string"]]

\* the item keywords of a collection block and the kind of item each opens
TxItemKind(block, keyword) ==
    CASE block = "beneficiaries" /\ keyword = "beneficiary" -> "beneficiary"
      [] block = "sources" /\ keyword \in PlatformWords -> "source"
      [] block = "sources" /\ keyword = "custom" -> "custom"
      [] block = "tiers" /\ keyword = "tier" -> "tier"
      [] block = "goals" /\ keyword = "goal" -> "goal"
      [] OTHER -> "none"

\* Every rule reads from a position p, skips white space and comments up
\* to q and matches there; a rule with several parts hands each part it has
\* read to the step that reads the next one.

\* white space and comments from b, the first position that is not white space
RECURSIVE TxSkip(_, _)
TxSkipAt(s, b) ==
    IF b + 1 < Len(s) /\ At(s, b) = "/" /\ At(s, b + 1) = "/"
    THEN TxSkip(s, LineEnd(s, b + 2))
    ELSE IF /\ b + 1 < Len(s) /\ At(s, b) = "/" /\ At(s, b + 1) = "*"
            /\ BlockCloses(s, b + 2) # {}
         THEN TxSkip(s, Min(BlockCloses(s, b + 2)) + 2)
         ELSE b

TxSkip(s, p) == TxSkipAt(s, SkipSpaces(s, p))

TxExpectAt(s, q, w) ==
    IF q < Len(s) /\ At(s, q) = w THEN [ok |-> TRUE, pos |-> q + 1] ELSE TxFail

TxExpect(s, p, w) == TxExpectAt(s, TxSkip(s, p), w)

\* STRING: an opening quote at q and the next quote at c
TxStringUpTo(s, q, c) ==
    IF q < Len(s) /\ At(s, q) = QT /\ c < Len(s)
    THEN [ok |-> TRUE, pos |-> c + 1, val |-> Slice(s, q + 1, c)]
    ELSE TxFail

TxString(s, p) == TxStringUpTo(s, TxSkip(s, p), NextQuote(s, TxSkip(s, p) + 1))

\* FLOAT / INT: the run of digits and dots from q to e
TxNumberRun(s, q, e) ==
    IF q < Len(s) /\ e > q /\ FloatOk(Slice(s, q, e))
    THEN [ok |-> TRUE, pos |-> e, val |-> Float(Slice(s, q, e))]
    ELSE TxFail

TxNumber(s, p) == TxNumberRun(s, TxSkip(s, p), NumRunEnd(s, TxSkip(s, p)))

TxWordAt(s, q, W) ==
    IF q < Len(s) /\ At(s, q) \in W
    THEN [ok |-> TRUE, pos |-> q + 1, val |-> At(s, q)]
    ELSE TxFail

TxWordIn(s, p, W) == TxWordAt(s, TxSkip(s, p), W)

\* Amount: value=Number currency=Currency
TxAmountOf(n, w) ==
    IF w.ok
    THEN [ok |-> TRUE, pos |-> w.pos, val |-> [value |-> n.val, currency |-> w.val]]
    ELSE TxFail

TxAmountCurrency(s, n) ==
    IF n.ok THEN TxAmountOf(n, TxWordIn(s, n.pos, CurrencyWords)) ELSE TxFail

TxAmount(s, p) == TxAmountCurrency(s, TxNumber(s, p))

\* STRING (',' STRING)* ']'
RECURSIVE TxListItems(_, _, _)
TxListSeparator(s, q, acc) ==
    IF q >= Len(s) THEN TxFail
    ELSE IF At(s, q) = "," THEN TxListItems(s, q + 1, acc)
    ELSE IF At(s, q) = "]" THEN [ok |-> TRUE, pos |-> q + 1, val |-> acc]
    ELSE TxFail

TxListItem(s, str, acc) ==
    IF str.ok THEN TxListSeparator(s, TxSkip(s, str.pos), Append(acc, str.val))
    ELSE TxFail

TxListItems(s, p, acc) == TxListItem(s, TxString(s, p), acc)

TxListOpen(s, open) ==
    IF open.ok THEN TxListItems(s, open.pos, <<>>) ELSE TxFail

TxList(s, p) == TxListOpen(s, TxExpect(s, p, "["))

\* (key=STRING value=STRING)* '}'
RECURSIVE TxConfigItems(_, _, _)
TxConfigValue(s, key, value, acc) ==
    IF value.ok
    THEN TxConfigItems(s, value.pos, Append(acc, [key |-> key.val, value |-> value.val]))
    ELSE TxFail

TxConfigKey(s, key, acc) ==
    IF key.ok THEN TxConfigValue(s, key, TxString(s, key.pos), acc) ELSE TxFail

TxConfigAt(s, q, acc) ==
    IF q >= Len(s) THEN TxFail
    ELSE IF At(s, q) = "}" THEN [ok |-> TRUE, pos |-> q + 1, val |-> acc]
    ELSE TxConfigKey(s, TxString(s, q), acc)

TxConfigItems(s, p, acc) == TxConfigAt(s, TxSkip(s, p), acc)

TxConfigOpen(s, open) ==
    IF open.ok THEN TxConfigItems(s, open.pos, <<>>) ELSE TxFail

TxConfig(s, p) == TxConfigOpen(s, TxExpect(s, p, "{"))

RECURSIVE TxProps(_, _, _, _)
RECURSIVE TxItems(_, _, _, _)

\* BOOL
TxBool(w) == IF w.ok THEN [w EXCEPT !.val = (w.val = "true")] ELSE TxFail

TxItemsOpen(s, open, keyword) ==
    IF open.ok THEN TxItems(s, open.pos, keyword, <<>>) ELSE TxFail

\* the value of a property of the given type, read from position p
TxValue(s, p, type, keyword) ==
    CASE type = "string" -> TxString(s, p)
      [] type = "number" -> TxNumber(s, p)
      [] type = "amount" -> TxAmount(s, p)
      [] type = "currency" -> TxWordIn(s, p, CurrencyWords)
      [] type = "ftype" -> TxWordIn(s, p, TypeWords)
      [] type = "bool" -> TxBool(TxWordIn(s, p, {"true", "false"}))
      [] type = "list" -> TxList(s, p)
      [] type = "config" -> TxConfig(s, p)
      [] type = "items" -> TxItemsOpen(s, TxExpect(s, p, "{"), keyword)

\* (property)* '}' of a block of the given kind
TxProperty(s, keyword, v, kind, acc) ==
    IF v.ok THEN TxProps(s, v.pos, kind, [acc EXCEPT ![keyword] = Val(v.val)])
    ELSE TxFail

TxPropsAt(s, q, kind, acc) ==
    IF q >= Len(s) THEN TxFail
    ELSE IF At(s, q) = "}" THEN [ok |-> TRUE, pos |-> q + 1, val |-> acc]
    ELSE IF At(s, q) \in DOMAIN TxGrammar[kind]
         THEN TxProperty(s, At(s, q),
                         TxValue(s, q + 1, TxGrammar[kind][At(s, q)], At(s, q)),
                         kind, acc)
         ELSE TxFail

TxProps(s, p, kind, acc) == TxPropsAt(s, TxSkip(s, p), kind, acc)

TxNoProps(kind) == [keyword \in DOMAIN TxGrammar[kind] |-> None]

\* (keyword name=STRING '{' properties '}')* '}' of a collection block
TxItem(s, keyword, kind, name, props, block, acc) ==
    IF props.ok
    THEN TxItems(s, props.pos, block,
                 Append(acc, [keyword |-> keyword, kind |-> kind,
                              name |-> name.val, props |-> props.val]))
    ELSE TxFail

TxItemOpen(s, keyword, kind, name, open, block, acc) ==
    IF open.ok
    THEN TxItem(s, keyword, kind, name,
                TxProps(s, open.pos, kind, TxNoProps(kind)), block, acc)
    ELSE TxFail

TxItemName(s, keyword, kind, name, block, acc) ==
    IF kind # "none" /\ name.ok
    THEN TxItemOpen(s, keyword, kind, name, TxExpect(s, name.pos, "{"), block, acc)
    ELSE TxFail

TxItemsAt(s, q, block, acc) ==
    IF q >= Len(s) THEN TxFail
    ELSE IF At(s, q) = "}" THEN [ok |-> TRUE, pos |-> q + 1, val |-> acc]
    ELSE TxItemName(s, At(s, q), TxItemKind(block, At(s, q)), TxString(s, q + 1),
                    block, acc)

TxItems(s, p, block, acc) == TxItemsAt(s, TxSkip(s, p), block, acc)

\* metamodel.model_from_str: 'funding' name=STRING '{' properties '}' and the
\* end of the text; ok = FALSE stands for TextXSyntaxError
TxModelEnd(s, name, props) ==
    IF props.ok /\ TxSkip(s, props.pos) = Len(s)
    THEN [ok |-> TRUE, name |-> name.val, props |-> props.val]
    ELSE TxFail

TxModelOpen(s, name, open) ==
    IF open.ok
    THEN TxModelEnd(s, name, TxProps(s, open.pos, "funding", TxNoProps("funding")))
    ELSE TxFail

TxModelName(s, name) ==
    IF name.ok THEN TxModelOpen(s, name, TxExpect(s, name.pos, "{")) ELSE TxFail

TxModelHead(s, kw) ==
    IF kw.ok THEN TxModelName(s, TxString(s, kw.pos)) ELSE TxFail

model_from_str(s) == TxModelHead(s, TxExpect(s, 0, "funding"))

----------------------------------------------------------------------------
(* FundingDSLTextXParser: from the parse tree to the metamodel objects     *)

_get_optional_string_value(elem) == IF elem # None THEN Val(elem[1]) ELSE None

_get_currency(currency_elem) ==
    IF currency_elem # None THEN MapGet(currency_mapping, currency_elem, "USD")
    ELSE "USD"

_transform_amount(amount_elem) ==
    FundingAmount(amount_elem.value,
                  MapGet(currency_mapping, Val(amount_elem.currency), "USD"))

_transform_beneficiary(ben_elem) ==
    [name |-> ben_elem.name,
     email |-> _get_optional_string_value(ben_elem.props.email),
     github_username |-> _get_optional_string_value(ben_elem.props.github),
     website |-> _get_optional_string_value(ben_elem.props.website),
     description |-> _get_optional_string_value(ben_elem.props.description)]

\* a dict filled by platform_config[key] = value
RECURSIVE TxConfigDict(_, _)
TxConfigDict(configs, n) ==
    IF n = 0 THEN <<>>
    ELSE DictSet(TxConfigDict(configs, n - 1), configs[n].key, configs[n].value)

_transform_source(source_elem) ==
    LET is_platform == source_elem.kind = "source"
    IN [platform |->
            IF is_platform
            THEN MapGet(platform_mapping, Val(source_elem.keyword), "CUSTOM")
            ELSE "CUSTOM",
        username |-> source_elem.name,
        custom_url |->
            IF is_platform THEN None
            ELSE _get_optional_string_value(source_elem.props.url),
        funding_type |->
            IF source_elem.props.type # None
            THEN MapGet(funding_type_mapping, source_elem.props.type, "BOTH")
            ELSE "BOTH",
        is_active |->
            IF source_elem.props.active # None
            THEN Val(source_elem.props.active[1])
            ELSE Val(TRUE),
        platform_specific_config |->
            IF source_elem.props.config # None
            THEN TxConfigDict(source_elem.props.config[1], Len(source_elem.props.config[1]))
            ELSE <<>>]

\* the grammar makes amount a required property of a tier
_transform_tier(tier_elem) ==
    [name |-> tier_elem.name,
     amount |-> _transform_amount(tier_elem.props.amount[1]),
     description |-> _get_optional_string_value(tier_elem.props.description),
     benefits |-> IF tier_elem.props.benefits # None THEN tier_elem.props.benefits[1]
                  ELSE <<>>,
     max_sponsors |->
         IF tier_elem.props.max_sponsors # None
         THEN Val(PyInt(tier_elem.props.max_sponsors[1]))
         ELSE None,
     is_active |-> Val(TRUE)]

_transform_goal(goal_elem) ==
    LET target_amount == _transform_amount(goal_elem.props.target[1])
    IN [name |-> goal_elem.name,
        target_amount |-> target_amount,
        current_amount |->
            IF goal_elem.props.current # None
            THEN _transform_amount(goal_elem.props.current[1])
            ELSE FundingAmount(0, target_amount.currency),
        description |-> _get_optional_string_value(goal_elem.props.description),
        deadline |->
            IF goal_elem.props.deadline # None
            THEN strptime(goal_elem.props.deadline[1])
            ELSE None,
        is_reached |-> FALSE]

TxList0(elem) == IF elem # None THEN elem[1] ELSE <<>>

_transform_model(textx_model) ==
    LET preferred_currency == _get_currency(textx_model.props.currency)
    IN [project_name |-> textx_model.name,
        description |-> _get_optional_string_value(textx_model.props.description),
        preferred_currency |-> preferred_currency,
        min_amount |->
            IF textx_model.props.min_amount # None
            THEN Val(FundingAmount(textx_model.props.min_amount[1], preferred_currency))
            ELSE None,
        max_amount |->
            IF textx_model.props.max_amount # None
            THEN Val(FundingAmount(textx_model.props.max_amount[1], preferred_currency))
            ELSE None,
        beneficiaries |->
            [k \in 1..Len(TxList0(textx_model.props.beneficiaries)) |->
                _transform_beneficiary(textx_model.props.beneficiaries[1][k])],
        funding_sources |->
            [k \in 1..Len(TxList0(textx_model.props.sources)) |->
                _transform_source(textx_model.props.sources[1][k])],
        tiers |->
            [k \in 1..Len(TxList0(textx_model.props.tiers)) |->
                _transform_tier(textx_model.props.tiers[1][k])],
        goals |->
            [k \in 1..Len(TxList0(textx_model.props.goals)) |->
                _transform_goal(textx_model.props.goals[1][k])]]

\* the required properties of the grammar: a tier has an amount, a goal a target
TxRequired(textx_model) ==
    /\ \A k \in 1..Len(TxList0(textx_model.props.tiers)) :
           textx_model.props.tiers[1][k].props.amount # None
    /\ \A k \in 1..Len(TxList0(textx_model.props.goals)) :
           textx_model.props.goals[1][k].props.target # None

\* the configuration transformed from the parse tree unless parsing failed
textx_configuration_of(textx_model) ==
    IF ~textx_model.ok THEN [raised |-> TRUE]
    ELSE IF ~TxRequired(textx_model) THEN [raised |-> TRUE]
    ELSE [raised |-> FALSE, config |-> _transform_model(textx_model)]

\* FundingDSLTextXParser.parse_text: a syntax error is raised as TextXParseError
textx_parse_text(input) == textx_configuration_of(model_from_str(input))

----------------------------------------------------------------------------
(* Input texts.  A document description lists what the author wrote; the   *)
(* text handed to the parsers is its rendering, one property per line.     *)

MaxItems == 2

SeqsUpTo(S, n) == UNION {[1..k -> S] : k \in 0..n}

Str(w) == Val(<<w>>)

ItemNames == <<"n1", "n2", "n3", "n4">>

UserNames == <<"u1", "u2", "u3", "u4">>

UrlAlice == <<"https:", "/", "/", "alice.dev">>

UrlPaypal == <<"https:", "/", "/", "paypal.me", "/", "x">>

BenKinds ==
    {[email |-> Str("a@x"), github |-> Str("alice"), website |-> None, description |-> None],
     [email |-> None, github |-> None, website |-> None, description |-> None],
     [email |-> None, github |-> None, website |-> Val(UrlAlice), description |-> Str("Lead")],
     [email |-> None, github |-> Str("bob"), website |-> None,
      description |-> Val(<<"Core", " ", "dev">>)]}

\* config_first: the config sub-block is written before the active property
SrcKinds ==
    {[platform |-> "patreon", url |-> None, type |-> None, active |-> None,
      config |-> <<>>, has_config |-> FALSE, config_first |-> FALSE],
     [platform |-> "github_sponsors", url |-> None, type |-> Val("one_time"),
      active |-> Val("true"), config |-> <<>>, has_config |-> FALSE, config_first |-> FALSE],
     [platform |-> "patreon", url |-> None, type |-> Val("recurring"),
      active |-> Val("false"), config |-> << <<(<<"k">>), (<<"v">>)>> >>,
      has_config |-> TRUE, config_first |-> TRUE],
     [platform |-> "custom", url |-> Val(UrlPaypal), type |-> Val("both"),
      active |-> Val("false"), config |-> <<>>, has_config |-> FALSE, config_first |-> FALSE],
     [platform |-> "github_sponsors", url |-> None, type |-> None, active |-> None,
      config |-> << <<(<<"k">>), (<<"v">>)>>, <<(<<"w">>), UrlAlice>> >>,
      has_config |-> TRUE, config_first |-> FALSE]}

TierKinds ==
    {[amount |-> Val(<<(<<"5">>), "USD">>), description |-> Str("Basic"),
      max_sponsors |-> None, benefits |-> <<(<<"Thanks">>), (<<"Logo">>)>>],
     [amount |-> None, description |-> None, max_sponsors |-> None, benefits |-> <<>>],
     [amount |-> Val(<<(<<"2", "5", ".", "5">>), "EUR">>), description |-> None,
      max_sponsors |-> Val(<<"1", "0">>), benefits |-> <<>>],
     [amount |-> Val(<<(<<"5">>), "GBP">>), description |-> None,
      max_sponsors |-> Val(<<"1", ".", "2", ".", "3">>), benefits |-> <<>>]}

GoalKinds ==
    {[target |-> Val(<<(<<"2", "0", "0">>), "EUR">>),
      current |-> Val(<<(<<"1", "2", "5">>), "EUR">>),
      description |-> Str("Hosting"), deadline |-> None],
     [target |-> None, current |-> None, description |-> None, deadline |-> None],
     [target |-> Val(<<(<<"1", "0", "0">>), "EUR">>), current |-> None,
      description |-> None, deadline |-> Str("2024-12-31")],
     [target |-> Val(<<(<<"5">>), "USD">>), current |-> None,
      description |-> Str("Docs"), deadline |-> Str("not-a-date")],
     [target |-> Val(<<(<<"5">>), "USD">>), current |-> Val(<<(<<"5">>), "USD">>),
      description |-> None, deadline |-> None]}

BaseDoc ==
    [header |-> TRUE, closed |-> TRUE, comment |-> "none",
     description |-> None, currency |-> None, min_amount |-> None,
     bens |-> <<>>, srcs |-> <<>>, tiers |-> <<>>, goals |-> <<>>]

With(d, field, value) == [d EXCEPT ![field] = value]

OneBen == <<CHOOSE b \in BenKinds : b.website # None>>

OneSrc == <<CHOOSE x \in SrcKinds : x.platform = "custom">>

TopDocs ==
    {[header |-> h, closed |-> c, comment |-> cm,
      description |-> de, currency |-> cu, min_amount |-> mi,
      bens |-> OneBen, srcs |-> OneSrc, tiers |-> <<>>, goals |-> <<>>] :
        h \in BOOLEAN, c \in BOOLEAN, cm \in {"none", "line", "block"},
        de \in {None, Val(<<"A", " ", "project">>)},
        cu \in {None, Val("EUR"), Val("XYZ")},
        mi \in {None, Val(<<"5">>), Val(<<"0">>), Val(<<".">>)}}

BenDocs ==
    {[BaseDoc EXCEPT !.bens = l, !.description = de] :
        l \in SeqsUpTo(BenKinds, MaxItems), de \in {None, Str("Top")}}

SrcDocs == {With(BaseDoc, "srcs", l) : l \in SeqsUpTo(SrcKinds, MaxItems)}

TierDocs == {With(BaseDoc, "tiers", l) : l \in SeqsUpTo(TierKinds, MaxItems)}

GoalDocs ==
    {[BaseDoc EXCEPT !.goals = l, !.currency = cu] :
        l \in SeqsUpTo(GoalKinds, MaxItems), cu \in {None, Val("EUR")}}

\* source entries written with a token that is no platform keyword
TokenKinds ==
    {[platform |-> w, url |-> None, type |-> None, active |-> Val("true"),
      config |-> <<>>, has_config |-> FALSE, config_first |-> FALSE] :
        w \in {"gitlab", "patreon"}}

TokenDocs == {With(BaseDoc, "srcs", l) : l \in SeqsUpTo(TokenKinds, MaxItems)}

\* beneficiaries whose description holds a brace between its quotes
BraceKinds ==
    {[email |-> None, github |-> Str("alice"), website |-> None,
      description |-> Val(<<"a", " ", "}">>)],
     [email |-> Str("a@x"), github |-> None, website |-> None,
      description |-> Val(<<"{", "b">>)],
     [email |-> None, github |-> Str("bob"), website |-> None,
      description |-> Val(<<"{", "c", "}">>)],
     [email |-> None, github |-> Str("eve"), website |-> None, description |-> Str("Lead")]}

BraceDocs ==
    {[BaseDoc EXCEPT !.bens = l, !.description = de] :
        l \in SeqsUpTo(BraceKinds, MaxItems), de \in {None, Str("Top")}}

Docs == TopDocs \cup BenDocs \cup SrcDocs \cup TierDocs \cup GoalDocs \cup TokenDocs

Quoted(str) == <<QT>> \o str \o <<QT>>

RenderString(name, v) ==
    IF v = None THEN <<>> ELSE <<name, " ">> \o Quoted(v[1]) \o <<NL>>

RenderWord(name, v) ==
    IF v = None THEN <<>> ELSE <<name, " ", v[1], NL>>

RenderNumber(name, v) ==
    IF v = None THEN <<>> ELSE <<name, " ">> \o v[1] \o <<NL>>

RenderAmount(name, v) ==
    IF v = None THEN <<>> ELSE <<name, " ">> \o v[1][1] \o <<" ", v[1][2], NL>>

\* an item with no property is written with the empty body {}
RenderItem(keyword, name, body) ==
    <<keyword, " ">> \o Quoted(<<name>>) \o <<" ", "{">>
    \o (IF body = <<>> THEN <<>> ELSE <<NL>> \o body) \o <<"}", NL>>

RenderBlock(keyword, items) ==
    IF items = <<>> THEN <<>>
    ELSE <<keyword, " ", "{", NL>> \o Flatten(items) \o <<"}", NL>>

BenBody(b) ==
    RenderString("email", b.email) \o RenderString("github", b.github)
    \o RenderString("website", b.website) \o RenderString("description", b.description)

RenderConfig(x) ==
    IF ~x.has_config THEN <<>>
    ELSE <<"config", " ", "{", NL>>
         \o Flatten([k \in 1..Len(x.config) |->
                Quoted(x.config[k][1]) \o <<" ">> \o Quoted(x.config[k][2]) \o <<NL>>])
         \o <<"}", NL>>

SrcBody(x) ==
    RenderString("url", x.url) \o RenderWord("type", x.type)
    \o (IF x.config_first
        THEN RenderConfig(x) \o RenderWord("active", x.active)
        ELSE RenderWord("active", x.active) \o RenderConfig(x))

RenderList(name, l) ==
    IF l = <<>> THEN <<>>
    ELSE <<name, " ", "[">>
         \o Flatten([k \in 1..Len(l) |->
                (IF k > 1 THEN <<",", " ">> ELSE <<>>) \o Quoted(l[k])])
         \o <<"]", NL>>

TierBody(t) ==
    RenderAmount("amount", t.amount) \o RenderString("description", t.description)
    \o RenderNumber("max_sponsors", t.max_sponsors) \o RenderList("benefits", t.benefits)

GoalBody(g) ==
    RenderAmount("target", g.target) \o RenderAmount("current", g.current)
    \o RenderString("description", g.description) \o RenderString("deadline", g.deadline)

RenderComment(kind) ==
    CASE kind = "line" -> <<"/", "/", " ", "min_amount", " ", "9", NL>>
      [] kind = "block" -> <<"/", "*", " ", "min_amount", " ", "9", NL, "*", "/", NL>>
      [] OTHER -> <<>>

\* the text without its last two closing braces
RECURSIVE DropClosers(_, _)
DropClosers(s, n) ==
    IF n = 0 \/ s = <<>> THEN s
    ELSE IF s[Len(s)] = "}"
         THEN DropClosers(SubSeq(s, 1, Len(s) - 1), n - 1)
         ELSE DropClosers(SubSeq(s, 1, Len(s) - 1), n) \o <<s[Len(s)]>>

Render(d) ==
    LET full ==
            (IF d.header THEN <<"funding", " ">> \o Quoted(<<"P">>) \o <<" ", "{", NL>>
             ELSE <<"{", NL>>)
            \o RenderComment(d.comment)
            \o RenderString("description", d.description)
            \o RenderWord("currency", d.currency)
            \o RenderNumber("min_amount", d.min_amount)
            \o RenderBlock("beneficiaries",
                   [k \in 1..Len(d.bens) |->
                       RenderItem("beneficiary", ItemNames[k], BenBody(d.bens[k]))])
            \o RenderBlock("sources",
                   [k \in 1..Len(d.srcs) |->
                       RenderItem(d.srcs[k].platform, UserNames[k], SrcBody(d.srcs[k]))])
            \o RenderBlock("tiers",
                   [k \in 1..Len(d.tiers) |->
                       RenderItem("tier", ItemNames[k], TierBody(d.tiers[k]))])
            \o RenderBlock("goals",
                   [k \in 1..Len(d.goals) |->
                       RenderItem("goal", ItemNames[k], GoalBody(d.goals[k]))])
            \o <<"}", NL>>
    IN IF d.closed THEN full ELSE DropClosers(full, 2)

----------------------------------------------------------------------------
(* The objects of the metamodel that the validator and the goals are run on *)

MaxSources == 2

MaxNames == 4

MaxUnits == 40

Source(platform, username, custom_url) ==
    [platform |-> platform, username |-> username, funding_type |-> "BOTH",
     is_active |-> Val(TRUE), custom_url |-> custom_url,
     platform_specific_config |-> <<>>]

SourceKinds ==
    {Source("TIDELIFT", u, None) :
        u \in {<<"npm", "/", "pkg">>, <<"pypi", "/", "a", "/", "b">>, <<"nuget", "/">>,
               <<"otherregistry", "/", "pkg">>, <<"pkg">>, <<>>}}
    \cup {Source("THANKS_DEV", u, None) :
        u \in {<<"u", "/", "gh", "/", "alice">>, <<"alice">>, <<"u", "/", "gh">>}}
    \cup {Source("CUSTOM", <<"me">>, url) : url \in {None, Val(<<>>), Val(UrlPaypal)}}
    \cup {Source("PATREON", u, None) : u \in {<<"alice">>, <<>>}}

Tier(name) ==
    [name |-> <<name>>, amount |-> FundingAmount(500, "USD"), description |-> None,
     benefits |-> <<>>, max_sponsors |-> None, is_active |-> Val(TRUE)]

Goal(name, target, current) ==
    [name |-> <<name>>, target_amount |-> FundingAmount(target, "USD"),
     current_amount |-> FundingAmount(current, "USD"), description |-> None,
     deadline |-> None, is_reached |-> FALSE]

Configuration(project_name, beneficiaries, funding_sources, tiers, goals) ==
    [project_name |-> project_name, description |-> None, preferred_currency |-> "USD",
     min_amount |-> None, max_amount |-> None, beneficiaries |-> beneficiaries,
     funding_sources |-> funding_sources, tiers |-> tiers, goals |-> goals]

OneBeneficiary ==
    <<[name |-> <<"Alice">>, email |-> None, github_username |-> None,
       website |-> None, description |-> None]>>

BaseConfig ==
    Configuration(<<"P">>, OneBeneficiary, <<Source("PATREON", <<"alice">>, None)>>,
                  <<>>, <<>>)

BaseGoal == Goal("g", 0, 0)

NameLists == SeqsUpTo({"Basic", "Gold"}, MaxNames)

FewNameLists == {<<>>, <<"Basic", "Gold">>, <<"Gold", "Gold">>}

SourceConfigs ==
    {Configuration(pn, bens, srcs, <<>>, <<>>) :
        pn \in {<<>>, <<"P">>}, bens \in {<<>>, OneBeneficiary},
        srcs \in SeqsUpTo(SourceKinds, MaxSources)}

NameConfigs ==
    {[c EXCEPT !.tiers = [k \in 1..Len(l[1]) |-> Tier(l[1][k])],
               !.goals = [k \in 1..Len(l[2]) |-> Goal(l[2][k], 10000, 2500)]] :
        c \in {BaseConfig, Configuration(<<>>, <<>>, <<>>, <<>>, <<>>)},
        l \in (NameLists \X FewNameLists) \cup (FewNameLists \X NameLists)}

\* the monetary fields of a configuration: the limits and the amounts of
\* the tiers and goals; the last two have min_amount above max_amount,
\* negative values and mixed currencies
Monies ==
    {[min_amount |-> None, max_amount |-> None,
      amount |-> FundingAmount(500, "USD"), current |-> FundingAmount(0, "USD")],
     [min_amount |-> Val(FundingAmount(500, "USD")),
      max_amount |-> Val(FundingAmount(10000, "USD")),
      amount |-> FundingAmount(2500, "EUR"), current |-> FundingAmount(1000, "EUR")],
     [min_amount |-> Val(FundingAmount(10000, "USD")),
      max_amount |-> Val(FundingAmount(500, "EUR")),
      amount |-> FundingAmount(0 - 500, "GBP"), current |-> FundingAmount(2500, "CAD")]}

WithMoney(c, m) ==
    [c EXCEPT !.min_amount = m.min_amount, !.max_amount = m.max_amount,
              !.tiers = [k \in 1..Len(c.tiers) |-> [c.tiers[k] EXCEPT !.amount = m.amount]],
              !.goals = [k \in 1..Len(c.goals) |->
                            [c.goals[k] EXCEPT !.target_amount = m.amount,
                                               !.current_amount = m.current]]]

Configs == {WithMoney(c, m) : c \in SourceConfigs \cup NameConfigs, m \in Monies}

\* goals whose target and current are multiples of 25 up to 25 * MaxUnits
ProgressGoals == {Goal("g", 2500 * t, 2500 * c) : t \in 0..MaxUnits, c \in 0..MaxUnits}

----------------------------------------------------------------------------
(* The parsing state machine: a text arrives and each parser is run on it; *)
(* FundingDSLParser is run a second time on either of two instances        *)

NotRun == [called |-> FALSE]

Instances == {1, 2}

ParsersIdle ==
    /\ parsers = [p \in Instances |-> FundingDSLParser]
    /\ result = NotRun
    /\ second_result = NotRun
    /\ tx_result = NotRun

ScannerIdle == scan_pos = 0 /\ content_result = NotRun /\ block_result = NotRun

MetamodelIdle ==
    /\ configuration = BaseConfig
    /\ funding_goal = BaseGoal
    /\ errors = NotRun
    /\ valid = NotRun
    /\ progress = NotRun

ThreadsIdle == threads = NotRun

AggregateIdle == aggregate = NotRun

\* no extraction loop has been entered
LoopIdle ==
    [called |-> FALSE, kind |-> "", platform |-> 1, phase |-> "idle", block |-> <<>>,
     pos |-> 0, start_pos |-> 0, iterations |-> 0]

\* _extract_balanced_content is not running
ScanIdle ==
    [called |-> FALSE, done |-> FALSE, s |-> <<>>, start_pos |-> 0, pos |-> 0,
     brace_count |-> 0, visits |-> <<>>, value |-> <<>>]

LoopsIdle == item_loop = LoopIdle /\ brace_scan = ScanIdle

EditorIdle == editor = NotRun /\ model_file = NotRun

ExporterIdle == exporter = NotRun

ToolsIdle == ThreadsIdle /\ AggregateIdle /\ LoopsIdle /\ EditorIdle /\ ExporterIdle

Init ==
    /\ doc \in Docs
    /\ text = Render(doc)
    /\ ParsersIdle
    /\ ScannerIdle
    /\ MetamodelIdle
    /\ ToolsIdle

\* a parse_text that drops the currencies it did not meet from its table
ParseTextForgetting ==
    /\ ~result.called
    /\ result' = [called |-> TRUE] @@ parse_text(parsers[1], text)
    /\ parsers' = [parsers EXCEPT ![1].currency_mapping = [USD |-> "USD"]]
    /\ UNCHANGED <<text, doc, second_result, tx_result, scan_vars, model_vars, tool_vars>>

\* FundingDSLParser.parse_text(text) on the first instance
ParseText ==
    /\ ~result.called
    /\ result' = [called |-> TRUE] @@ parse_text(parsers[1], text)
    /\ UNCHANGED <<text, doc, parsers, second_result, tx_result, scan_vars, model_vars, tool_vars>>

\* FundingDSLParser.parse_text(text) once more, on instance p
ParseTextAgain(p) ==
    /\ result.called
    /\ ~second_result.called
    /\ second_result' = [called |-> TRUE, instance |-> p] @@ parse_text(parsers[p], text)
    /\ UNCHANGED <<text, doc, parsers, result, tx_result, scan_vars, model_vars, tool_vars>>

\* FundingDSLTextXParser.parse_text(text)
TextXParseText ==
    /\ ~tx_result.called
    /\ tx_result' = [called |-> TRUE] @@ textx_parse_text(text)
    /\ UNCHANGED <<text, doc, parsers, result, second_result, scan_vars, model_vars, tool_vars>>

Next == ParseText \/ TextXParseText \/ \E p \in Instances : ParseTextAgain(p)

Spec == Init /\ [][Next]_vars

----------------------------------------------------------------------------
(* The block scanner on its own: any text over braces, white space and a   *)
(* block keyword, scanned from any position                                *)

MaxLen == 5

ScanLexemes == {"{", "}", " ", "tiers"}

InitBraces ==
    /\ doc \in BraceDocs
    /\ text = Render(doc)
    /\ ParsersIdle
    /\ ScannerIdle
    /\ MetamodelIdle
    /\ ToolsIdle

SpecBraces == InitBraces /\ [][Next]_vars

InitScan ==
    /\ text \in SeqsUpTo(ScanLexemes, MaxLen)
    /\ scan_pos \in 0..Len(text)
    /\ doc = BaseDoc
    /\ content_result = NotRun
    /\ block_result = NotRun
    /\ ParsersIdle
    /\ MetamodelIdle
    /\ ToolsIdle

\* FundingDSLParser._extract_balanced_content(text, start_pos)
ExtractBalancedContent ==
    /\ ~content_result.called
    /\ content_result' =
           [called |-> TRUE, value |-> _extract_balanced_content(text, scan_pos)]
    /\ UNCHANGED <<text, doc, parse_vars, scan_pos, block_result, model_vars, tool_vars>>

\* FundingDSLParser._extract_balanced_block(text, 'tiers')
ExtractBalancedBlock ==
    /\ ~block_result.called
    /\ block_result' = [called |-> TRUE, value |-> _extract_balanced_block(text, "tiers")]
    /\ UNCHANGED <<text, doc, parse_vars, scan_pos, content_result, model_vars, tool_vars>>

NextScan == ExtractBalancedContent \/ ExtractBalancedBlock

SpecScan == InitScan /\ [][NextScan]_vars

----------------------------------------------------------------------------
(* The metamodel on its own: the validator is run on a configuration and   *)
(* the progress of a goal is read                                          *)

InitModel ==
    /\ \/ configuration \in Configs /\ funding_goal = BaseGoal
       \/ configuration = BaseConfig /\ funding_goal \in ProgressGoals
    /\ errors = NotRun
    /\ valid = NotRun
    /\ progress = NotRun
    /\ text = <<>>
    /\ doc = BaseDoc
    /\ ParsersIdle
    /\ ScannerIdle
    /\ ToolsIdle

\* FundingModelValidator.validate_configuration(config)
ValidateConfiguration ==
    /\ ~errors.called
    /\ errors' = [called |-> TRUE, value |-> validate_configuration(configuration)]
    /\ UNCHANGED <<text, doc, parse_vars, scan_vars, configuration, valid, funding_goal, progress, tool_vars>>

\* FundingModelValidator.is_valid_configuration(config)
IsValidConfiguration ==
    /\ ~valid.called
    /\ valid' = [called |-> TRUE, value |-> is_valid_configuration(configuration)]
    /\ UNCHANGED <<text, doc, parse_vars, scan_vars, configuration, errors, funding_goal, progress, tool_vars>>

\* goal.progress_percentage
ProgressPercentage ==
    /\ ~progress.called
    /\ progress' = [called |-> TRUE] @@ progress_percentage(funding_goal)
    /\ UNCHANGED <<text, doc, parse_vars, scan_vars, configuration, errors, valid, funding_goal, tool_vars>>

NextModel == ValidateConfiguration \/ IsValidConfiguration \/ ProgressPercentage

SpecModel == InitModel /\ [][NextModel]_vars

----------------------------------------------------------------------------
(* Properties of the parsers *)

Parsed == result.called /\ ~result.raised

TxParsed == tx_result.called /\ ~tx_result.raised

\* the sources of a configuration that carry the user name of entry k
SourcesOfEntry(c, k) ==
    {i \in 1..Len(c.funding_sources) : c.funding_sources[i].username = <<UserNames[k]>>}

\* C1: every funding-source entry written without an `active` property is
\* parsed by FundingDSLParser.parse_text into a FundingSource whose is_active
\* is the boolean True, and get_active_sources returns it.
C1_DefaultActive ==
    (Parsed /\ doc.closed) =>
        \A k \in 1..Len(doc.srcs) :
            doc.srcs[k].active = None =>
                \E i \in SourcesOfEntry(result.config, k) :
                    LET source == result.config.funding_sources[i]
                        active == get_active_sources(result.config)
                    IN /\ source.is_active = Val(TRUE)
                       /\ \E j \in 1..Len(active) : active[j] = source

ExpectedType(word) ==
    CASE word = "one_time" -> "ONE_TIME"
      [] word = "recurring" -> "RECURRING"
      [] word = "both" -> "BOTH"

TypesCoerced(c) ==
    \A k \in 1..Len(doc.srcs) :
        doc.srcs[k].type # None =>
            \E i \in SourcesOfEntry(c, k) :
                c.funding_sources[i].funding_type = ExpectedType(doc.srcs[k].type[1])

\* C2: a source entry written with `type one_time`, `type recurring` or
\* `type both` is parsed, by either parser, into a FundingSource whose
\* funding_type is ONE_TIME, RECURRING or BOTH respectively.
C2_FundingTypeCoercion ==
    /\ (Parsed /\ doc.closed) => TypesCoerced(result.config)
    /\ (TxParsed /\ doc.closed) => TypesCoerced(tx_result.config)

\* C3: funding_sources lists the source entries in the order in which they
\* are written in the sources block, whatever their platform keywords.
C3_SourceOrder ==
    (Parsed /\ doc.closed) =>
        /\ Len(result.config.funding_sources) = Len(doc.srcs)
        /\ \A k \in 1..Len(doc.srcs) :
               result.config.funding_sources[k].username = <<UserNames[k]>>

\* C4: FundingDSLParser.parse_text raises exactly when the text has no
\* funding "<name>" { header; no content of a nested block or property
\* value makes it raise.
C4_RaisesOnlyWithoutHeader ==
    result.called => (result.raised <=> ~doc.header)

\* C5: a // inside a quoted string value is not treated as a comment: the
\* parsed website of a beneficiary and the parsed url of a custom source
\* are exactly the text written between the quotes.
C5_CommentsOnlyOutsideStrings ==
    (Parsed /\ doc.closed) =>
        /\ \A k \in 1..Len(doc.bens) :
               /\ k <= Len(result.config.beneficiaries)
               /\ result.config.beneficiaries[k].website = doc.bens[k].website
        /\ \A k \in 1..Len(doc.srcs) :
               \E i \in SourcesOfEntry(result.config, k) :
                   result.config.funding_sources[i].custom_url = doc.srcs[k].url

\* C6: for every text accepted by both parsers the two configurations are
\* structurally equal, field by field and position by position.
C6_ParsersAgree ==
    (Parsed /\ TxParsed) => result.config = tx_result.config

\* C10: when the funding block has no top-level description property the
\* parsed description is None, whatever the nested blocks contain.
C10_TopLevelDescription ==
    (Parsed /\ doc.closed /\ doc.description = None) =>
        result.config.description = None

\* the brace depth behind position j of a scan that starts at position a:
\* the opening braces minus the closing braces at the positions a..j
Depth(s, a, j) ==
    Cardinality({m \in a..j : At(s, m) = "{"}) - Cardinality({m \in a..j : At(s, m) = "}"})

\* the positions behind a at which the depth of the scan from a is zero
DepthZero(s, a) == {j \in (a + 1)..(Len(s) - 1) : Depth(s, a, j) = 0}

\* the positions of the block keyword that is followed by \s*\{ at position j
KeywordBrace(s, kw) ==
    {<<i, j>> \in (0..(Len(s) - 1)) \X (0..(Len(s) - 1)) :
        /\ At(s, i) = kw /\ i < j /\ At(s, j) = "{"
        /\ \A m \in (i + 1)..(j - 1) : IsSpace(At(s, m))}

\* C8: _extract_balanced_content(text, start_pos) on a '{' returns exactly
\* the text strictly between that brace and the first later position at
\* which the brace depth is back at zero; it returns the empty string when
\* the depth never returns to zero or start_pos is not on a '{'; and
\* _extract_balanced_block returns None when the keyword followed by '{'
\* does not occur, the balanced content behind its first occurrence otherwise.
C8_BalancedContent ==
    /\ content_result.called =>
          IF scan_pos < Len(text) /\ At(text, scan_pos) = "{"
             /\ DepthZero(text, scan_pos) # {}
          THEN content_result.value =
                  Slice(text, scan_pos + 1, Min(DepthZero(text, scan_pos)))
          ELSE content_result.value = <<>>
    /\ block_result.called =>
          IF KeywordBrace(text, "tiers") = {} THEN block_result.value = None
          ELSE \E p \in KeywordBrace(text, "tiers") :
                  /\ \A q \in KeywordBrace(text, "tiers") : p[1] <= q[1]
                  /\ block_result.value # None
                  /\ block_result.value[1] =
                        IF DepthZero(text, p[2]) = {} THEN <<>>
                        ELSE Slice(text, p[2] + 1, Min(DepthZero(text, p[2])))

\* a scan from a brace that closes behind a nested block, and a keyword
\* block found with its content
C8_Witness ==
    /\ content_result.called /\ block_result.called
    /\ text = <<"tiers", "{", "{", "}", "}">>
    /\ scan_pos = 1
    /\ content_result.value = <<"{", "}">>
    /\ block_result.value = Val(<<"{", "}">>)

\* the position of the "{" that opens source entry k in the text s
EntryBrace(s, k) ==
    CHOOSE p \in 6..(Len(s) - 1) :
        Slice(s, p - 6, p + 1) =
            <<doc.srcs[k].platform, " ">> \o Quoted(<<UserNames[k]>>) \o <<" ", "{">>

\* the value of the active property as entry x writes it
WrittenActive(x) == IF x.active = None THEN None ELSE Val(x.active[1] = "true")

\* the key and value pairs of entry x that hold no comment marker
PlainPairs(x) ==
    {x.config[n] : n \in {m \in 1..Len(x.config) :
                             \A j \in 1..Len(x.config[m][2]) : x.config[m][2][j] # "/"}}

\* C7: for a sources block with an entry whose body holds a nested
\* config { ... } sub-block, the text extracted for that entry runs to the
\* entry's own closing brace and holds the whole sub-block; every entry is
\* parsed into one source whose is_active is what that entry itself writes,
\* also when it is written behind the sub-block, and the entry's source
\* carries the pairs of its sub-block.
C7_NestedConfigKeepsEntry ==
    (Parsed /\ doc.closed /\ \E k \in 1..Len(doc.srcs) : doc.srcs[k].has_config) =>
        \A k \in 1..Len(doc.srcs) :
            /\ Cardinality(SourcesOfEntry(result.config, k)) = 1
            /\ \A i \in SourcesOfEntry(result.config, k) :
                  /\ result.config.funding_sources[i].is_active = WrittenActive(doc.srcs[k])
                  /\ \A pair \in PlainPairs(doc.srcs[k]) :
                        \E n \in 1..Len(result.config.funding_sources[i].platform_specific_config) :
                            result.config.funding_sources[i].platform_specific_config[n] = pair
            /\ doc.srcs[k].has_config =>
                  _extract_balanced_content(remove_comments(text),
                                            EntryBrace(remove_comments(text), k))
                      = remove_comments(<<NL>> \o SrcBody(doc.srcs[k]))

\* an entry with active false written behind its config sub-block, followed
\* by an entry without any property: the first is parsed as inactive with
\* its config, the second has no is_active of its own
C7_Witness ==
    /\ Parsed /\ doc.closed /\ Len(doc.srcs) = 2
    /\ doc.srcs[1].has_config /\ doc.srcs[1].config_first
    /\ doc.srcs[1].active = Val("false")
    /\ doc.srcs[2].active = None /\ ~doc.srcs[2].has_config
    /\ \E i \in SourcesOfEntry(result.config, 1) :
          /\ result.config.funding_sources[i].is_active = Val(FALSE)
          /\ result.config.funding_sources[i].platform_specific_config # <<>>
    /\ \E i \in SourcesOfEntry(result.config, 2) :
          result.config.funding_sources[i].is_active = None

\* the item lists of a document and the entity lists they are parsed into
ItemFields == {<<"bens", "beneficiaries">>, <<"tiers", "tiers">>, <<"goals", "goals">>}

\* the entity parsed from the document that holds item k of the list f of
\* d as its only item, under the name of item k
AloneEntity(d, f, k) ==
    [parse_text(FundingDSLParser, Render([d EXCEPT ![f[1]] = <<d[f[1]][k]>>])).config[f[2]][1]
        EXCEPT !.name = <<ItemNames[k]>>]

\* the entity the builder makes of an item named name with the empty body {}
EmptyEntity(f, name) ==
    CASE f[1] = "bens" ->
            [name |-> name, email |-> None, github_username |-> None,
             website |-> None, description |-> None]
      [] f[1] = "tiers" ->
            [name |-> name, amount |-> FundingAmount(0, "USD"), description |-> None,
             benefits |-> <<>>, max_sponsors |-> None, is_active |-> Val(TRUE)]
      [] f[1] = "goals" ->
            [name |-> name, target_amount |-> FundingAmount(0, "USD"),
             current_amount |-> FundingAmount(0, "USD"), description |-> None,
             deadline |-> None, is_reached |-> FALSE]

\* the body of item x of the list f as it is written
ItemBody(f, x) ==
    CASE f[1] = "bens" -> BenBody(x)
      [] f[1] = "tiers" -> TierBody(x)
      [] f[1] = "goals" -> GoalBody(x)

\* C9: a beneficiaries, tiers or goals block with n items is parsed into
\* exactly n entities, in the order of the items; entity k carries the name
\* of item k and is the entity that item k yields on its own, and an item
\* with the empty body {} yields the entity without any property.
C9_OneEntityPerItem ==
    (Parsed /\ doc.closed) =>
        \A f \in ItemFields :
            /\ Len(result.config[f[2]]) = Len(doc[f[1]])
            /\ \A k \in 1..Len(doc[f[1]]) :
                  /\ result.config[f[2]][k] = AloneEntity(doc, f, k)
                  /\ ItemBody(f, doc[f[1]][k]) = <<>> =>
                        result.config[f[2]][k] = EmptyEntity(f, <<ItemNames[k]>>)

\* two beneficiaries, the first with the empty body and the second with an
\* email: two entities in that order, the first without an email
C9_Witness ==
    /\ Parsed /\ doc.closed /\ Len(doc.bens) = 2
    /\ BenBody(doc.bens[1]) = <<>>
    /\ doc.bens[2].email # None
    /\ Len(result.config.beneficiaries) = 2
    /\ result.config.beneficiaries[1].name = <<"n1">>
    /\ result.config.beneficiaries[1].email = None
    /\ result.config.beneficiaries[2].name = <<"n2">>
    /\ result.config.beneficiaries[2].email = doc.bens[2].email

\* the currency a configuration gets from the currency property as written
WrittenCurrency(d) ==
    IF d.currency # None /\ d.currency[1] \in CurrencyWords THEN d.currency[1] ELSE "USD"

\* the goals of configuration c that omit current have a current_amount of
\* zero in the currency of c
CurrentDefaulted(c) ==
    \A k \in 1..Len(doc.goals) :
        doc.goals[k].current = None =>
            /\ k <= Len(c.goals)
            /\ c.goals[k].current_amount = FundingAmount(0, c.preferred_currency)

\* C11: every goal written without `current` is parsed, by either parser,
\* into a goal whose current_amount has the value 0 and the currency of the
\* configuration (its preferred_currency), whatever the currency of the
\* configuration and of the target.
C11_CurrentInConfigurationCurrency ==
    /\ (Parsed /\ doc.closed) =>
           /\ result.config.preferred_currency = WrittenCurrency(doc)
           /\ CurrentDefaulted(result.config)
    /\ (TxParsed /\ doc.closed) =>
           /\ tx_result.config.preferred_currency = WrittenCurrency(doc)
           /\ CurrentDefaulted(tx_result.config)

\* C12: a source entry whose token is none of the platform keywords does
\* not make FundingDSLParser.parse_text raise, and the configuration holds
\* a FundingSource for that entry, with the platform CUSTOM.
C12_UnknownTokenIsCustom ==
    (result.called /\ doc.header /\ doc.closed
     /\ \E k \in 1..Len(doc.srcs) : doc.srcs[k].platform \notin DOMAIN platform_mapping) =>
        /\ ~result.raised
        /\ \A k \in 1..Len(doc.srcs) :
               doc.srcs[k].platform \notin DOMAIN platform_mapping =>
                   \E i \in SourcesOfEntry(result.config, k) :
                       result.config.funding_sources[i].platform = "CUSTOM"

\* C13: a funding block that writes min_amount <number> is parsed into a
\* configuration whose min_amount is that number in the preferred currency,
\* for every number including 0, and min_amount is absent only when the
\* property is omitted; a tier's max_sponsors is absent only when omitted.
C13_AmountLimitsKept ==
    (Parsed /\ doc.closed) =>
        /\ doc.min_amount = None <=> result.config.min_amount = None
        /\ doc.min_amount # None =>
               result.config.min_amount =
                   Val(FundingAmount(Float(doc.min_amount[1]),
                                     result.config.preferred_currency))
        /\ \A k \in 1..Len(doc.tiers) :
               /\ k <= Len(result.config.tiers)
               /\ doc.tiers[k].max_sponsors = None
                      <=> result.config.tiers[k].max_sponsors = None

----------------------------------------------------------------------------
(* Properties of the validator and of the goals *)

Registries == {"npm", "pypi", "rubygems", "maven", "packagist", "nuget"}

\* the username is <package-registry>/<package-name> with a known registry
TideliftForm(username) ==
    Len(username) >= 2 /\ username[1] \in Registries /\ username[2] = "/"

\* the username begins with u/gh/
ThanksDevForm(username) ==
    /\ Len(username) >= 4
    /\ username[1] = "u" /\ username[2] = "/" /\ username[3] = "gh" /\ username[4] = "/"

\* the rules of the configuration's own fields that c violates
BrokenConfigurationRules(c) ==
    {r \in {"project_name", "beneficiary", "source", "tier_names", "goal_names"} :
        CASE r = "project_name" -> Len(c.project_name) = 0
          [] r = "beneficiary" -> Len(c.beneficiaries) = 0
          [] r = "source" -> Len(c.funding_sources) = 0
          [] r = "tier_names" ->
                \E i, j \in 1..Len(c.tiers) : i < j /\ c.tiers[i].name = c.tiers[j].name
          [] r = "goal_names" ->
                \E i, j \in 1..Len(c.goals) : i < j /\ c.goals[i].name = c.goals[j].name}

\* the pairs of a source of c and a rule for sources that the source violates
BrokenSourceRules(c) ==
    {ir \in (1..Len(c.funding_sources))
              \X {"username", "custom_url", "tidelift", "thanks_dev"} :
        LET source == c.funding_sources[ir[1]]
        IN CASE ir[2] = "username" -> Len(source.username) = 0
             [] ir[2] = "custom_url" ->
                   /\ source.platform = "CUSTOM"
                   /\ (source.custom_url = None \/ Len(source.custom_url[1]) = 0)
             [] ir[2] = "tidelift" ->
                   source.platform = "TIDELIFT" /\ ~TideliftForm(source.username)
             [] ir[2] = "thanks_dev" ->
                   source.platform = "THANKS_DEV" /\ ~ThanksDevForm(source.username)}

\* the fixed texts of the messages of each rule
MessagesOf(r) ==
    CASE r = "project_name" -> {"Project name is required"}
      [] r = "beneficiary" -> {"At least one beneficiary is required"}
      [] r = "source" -> {"At least one funding source is required"}
      [] r = "tier_names" -> {"Funding tier names must be unique"}
      [] r = "goal_names" -> {"Funding goal names must be unique"}
      [] r = "username" -> {"Username is required for"}
      [] r = "custom_url" -> {"Custom URL is required for custom platforms"}
      [] r = "tidelift" ->
            {"Tidelift username must be in format 'platform-name/package-name'",
             "Tidelift platform name must be one of"}
      [] r = "thanks_dev" -> {"Thanks.dev username must be in format 'u/gh/username'"}

\* the number of entries of msgs that are messages of rule r
CountOf(msgs, r) == Cardinality({n \in 1..Len(msgs) : msgs[n][1] \in MessagesOf(r)})

Validated == errors.called

\* C14: validate_configuration returns one entry for each rule of the
\* configuration's own fields that is violated and one entry for each pair
\* of a source and a rule for sources that the source violates, whatever
\* else is violated; the list is empty, and is_valid_configuration returns
\* True, exactly when no rule is violated.
C14_AllViolationsReported ==
    /\ Validated =>
          /\ Len(errors.value) = Cardinality(BrokenConfigurationRules(configuration))
                                 + Cardinality(BrokenSourceRules(configuration))
          /\ \A r \in BrokenConfigurationRules(configuration) :
                CountOf(errors.value, r) = 1
          /\ \A r \in {"username", "custom_url", "tidelift", "thanks_dev"} :
                CountOf(errors.value, r) =
                    Cardinality({ir \in BrokenSourceRules(configuration) : ir[2] = r})
    /\ valid.called =>
          (valid.value <=> /\ BrokenConfigurationRules(configuration) = {}
                           /\ BrokenSourceRules(configuration) = {})

\* a configuration without project name and beneficiary whose two sources
\* violate one rule each: four entries, and the configuration is not valid
C14_Witness ==
    /\ Validated /\ valid.called /\ ~valid.value
    /\ configuration.project_name = <<>> /\ configuration.beneficiaries = <<>>
    /\ Len(configuration.funding_sources) = 2
    /\ configuration.funding_sources[1] = Source("TIDELIFT", <<"pkg">>, None)
    /\ configuration.funding_sources[2] = Source("THANKS_DEV", <<"alice">>, None)
    /\ Len(errors.value) = 4

\* the tidelift sources of c whose username is not of the form
OffForm(c) ==
    {i \in 1..Len(c.funding_sources) :
        /\ c.funding_sources[i].platform = "TIDELIFT"
        /\ ~TideliftForm(c.funding_sources[i].username)}

OffPrefix(c) ==
    {i \in 1..Len(c.funding_sources) :
        /\ c.funding_sources[i].platform = "THANKS_DEV"
        /\ ~ThanksDevForm(c.funding_sources[i].username)}

\* C16: validate_configuration reports exactly one thanks.dev violation for
\* every thanks_dev source whose username does not begin with u/gh/, none
\* for one that does, and none for a source on another platform.
C16_ThanksDevPrefix ==
    Validated =>
        CountOf(errors.value, "thanks_dev") = Cardinality(OffPrefix(configuration))

\* a patreon source named alice next to a thanks_dev source named alice:
\* one thanks.dev violation
C16_Witness ==
    /\ Validated
    /\ Len(configuration.funding_sources) = 2
    /\ configuration.funding_sources[1] = Source("PATREON", <<"alice">>, None)
    /\ configuration.funding_sources[2] = Source("THANKS_DEV", <<"alice">>, None)
    /\ CountOf(errors.value, "thanks_dev") = 1

\* some name occurs more than once in the list l of tiers or goals
SomeNameTwice(l) == \E i, j \in 1..Len(l) : i # j /\ l[i].name = l[j].name

\* C17: validate_configuration reports exactly one name-uniqueness
\* violation for the tiers when some tier name occurs more than once,
\* however many names are repeated and however often, and none when all
\* tier names are distinct; likewise for the goals.
C17_OneUniquenessViolation ==
    Validated =>
        /\ CountOf(errors.value, "tier_names") =
               IF SomeNameTwice(configuration.tiers) THEN 1 ELSE 0
        /\ CountOf(errors.value, "goal_names") =
               IF SomeNameTwice(configuration.goals) THEN 1 ELSE 0

\* four tiers with two names repeated, none of them next to itself, and
\* goals with distinct names: one violation, for the tiers
C17_Witness ==
    /\ Validated
    /\ [k \in 1..Len(configuration.tiers) |-> configuration.tiers[k].name]
           = <<(<<"Basic">>), (<<"Gold">>), (<<"Basic">>), (<<"Gold">>)>>
    /\ Len(configuration.goals) = 2
    /\ CountOf(errors.value, "tier_names") = 1
    /\ CountOf(errors.value, "goal_names") = 0

C19_ProgressPercentage ==
    progress.called =>
        LET T == funding_goal.target_amount.value
            C == funding_goal.current_amount.value
        IN /\ ~progress.raised
           /\ progress.value.den > 0
           /\ 0 <= progress.value.num /\ progress.value.num <= 100 * progress.value.den
           /\ T = 0 => progress.value.num = 0
           /\ (T # 0 /\ C <= T) => progress.value.num * T = 100 * C * progress.value.den
           /\ (T # 0 /\ C > T) => progress.value.num = 100 * progress.value.den
           /\ (T = 20000 /\ C = 12500) => progress.value = [num |-> 125, den |-> 2]
           /\ (T = 100000 /\ C = 25000) => progress.value = [num |-> 25, den |-> 1]

\* the goal of target 200 and current 125 read as 62.5
C19_Witness ==
    /\ progress.called
    /\ funding_goal.target_amount.value = 20000
    /\ funding_goal.current_amount.value = 12500
    /\ progress.value = [num |-> 125, den |-> 2]

----------------------------------------------------------------------------
(* Further properties of the parsers *)

\* the goal x writes a deadline that is no date
BadDeadline(x) == x.deadline # None /\ \A day \in ValidDates : x.deadline # Str(day)

\* the document d with every deadline that is no date left out
WithoutBadDeadlines(d) ==
    [d EXCEPT !.goals = [k \in 1..Len(d.goals) |->
                            IF BadDeadline(d.goals[k])
                            THEN [d.goals[k] EXCEPT !.deadline = None]
                            ELSE d.goals[k]]]

SomeBadDeadline == \E k \in 1..Len(doc.goals) : BadDeadline(doc.goals[k])

\* C22: a goal whose deadline string is no YYYY-MM-DD date does not make
\* parse_text raise; the goal's deadline is None and every other field of
\* that goal and of the other goals is what it is when the deadline is left
\* out, for FundingDSLParser and for FundingDSLTextXParser.
C22_BadDeadlineIsNone ==
    (doc.header /\ doc.closed /\ SomeBadDeadline) =>
        /\ result.called =>
              /\ ~result.raised
              /\ result = [called |-> TRUE]
                          @@ parse_text(FundingDSLParser, Render(WithoutBadDeadlines(doc)))
              /\ \A k \in 1..Len(doc.goals) :
                    BadDeadline(doc.goals[k]) => result.config.goals[k].deadline = None
        /\ tx_result.called =>
              /\ tx_result = [called |-> TRUE]
                             @@ textx_parse_text(Render(WithoutBadDeadlines(doc)))
              /\ TxParsed =>
                    \A k \in 1..Len(doc.goals) :
                        BadDeadline(doc.goals[k]) =>
                            tx_result.config.goals[k].deadline = None

\* a goal with the deadline "not-a-date" behind a goal with a valid one,
\* parsed by both parsers: the first deadline is kept, the second is None
C22_Witness ==
    /\ Parsed /\ TxParsed /\ doc.closed /\ Len(doc.goals) = 2
    /\ doc.goals[1].deadline = Str("2024-12-31")
    /\ doc.goals[2].deadline = Str("not-a-date")
    /\ result.config.goals[1].deadline = Val("2024-12-31")
    /\ result.config.goals[2].deadline = None
    /\ result.config.goals[2].description = Str("Docs")
    /\ tx_result.config.goals[2].deadline = None

IsBrace(w) == w \in {"{", "}"}

HasBrace(v) == v # None /\ \E k \in 1..Len(v[1]) : IsBrace(v[1][k])

\* the string value v with its braces replaced by a dash
Unbraced(v) ==
    IF v = None THEN None
    ELSE Val([k \in 1..Len(v[1]) |-> IF IsBrace(v[1][k]) THEN "-" ELSE v[1][k]])

\* the document d with no brace inside a beneficiary's description
WithoutBraces(d) ==
    [d EXCEPT !.bens = [k \in 1..Len(d.bens) |->
                           [d.bens[k] EXCEPT !.description = Unbraced(d.bens[k].description)]]]

\* the beneficiaries of c, the descriptions aside
Undescribed(c) ==
    [k \in 1..Len(c.beneficiaries) |-> [c.beneficiaries[k] EXCEPT !.description = None]]

SomeQuotedBrace == \E k \in 1..Len(doc.bens) : HasBrace(doc.bens[k].description)

\* C25: a brace inside the quoted description of a beneficiary is skipped by
\* the block scanner: parse_text returns as many beneficiaries as are written,
\* each with the fields it has when the description holds no brace, and with
\* its description as written.
C25_QuotedBracesSkipped ==
    (result.called /\ doc.header /\ doc.closed /\ SomeQuotedBrace) =>
        /\ ~result.raised
        /\ Len(result.config.beneficiaries) = Len(doc.bens)
        /\ Undescribed(result.config)
             = Undescribed(parse_text(FundingDSLParser, Render(WithoutBraces(doc))).config)
        /\ \A k \in 1..Len(doc.bens) :
              result.config.beneficiaries[k].description = doc.bens[k].description
        /\ result.config.description = doc.description

\* is_reached of every goal of c says whether current has come up to target
ReachedDerived(c) ==
    \A k \in 1..Len(c.goals) :
        c.goals[k].is_reached
            <=> c.goals[k].current_amount.value >= c.goals[k].target_amount.value

\* no goal returned by get_unreached_goals has a progress of 100
UnreachedBelow100(c) ==
    \A k \in 1..Len(get_unreached_goals(c)) :
        progress_percentage(get_unreached_goals(c)[k]).value # Fraction(100, 1)

\* C29: in the configuration of either parser, is_reached of each goal is True
\* exactly when current_amount.value >= target_amount.value, and
\* get_unreached_goals returns no goal whose progress_percentage is 100.
C29_ReachedIsDerived ==
    /\ Parsed => ReachedDerived(result.config) /\ UnreachedBelow100(result.config)
    /\ TxParsed => ReachedDerived(tx_result.config) /\ UnreachedBelow100(tx_result.config)

----------------------------------------------------------------------------
(* FundingExporter.to_github_funding_yml.  The text returned is the        *)
(* sequence of its lines; a line is its key, whether the value is written  *)
(* as a flow list, and the items with their quoting.                       *)

MaxExported == 2

\* 'http' in str(item): the lexemes that hold it
HttpWords == {"http:", "https:"}

\* '.' in str(item): the lexemes that hold it
DottedWords == {"paypal.me", "www.paypal.me", "alice.dev", "octocat.com"}

\* 'http' in str(item) and '.' in str(item)
LooksLikeUrl(item) ==
    /\ \E k \in 1..Len(item) : item[k] \in HttpWords
    /\ \E k \in 1..Len(item) : item[k] \in DottedWords

YmlItem(item) == [text |-> item, quoted |-> LooksLikeUrl(item)]

YmlLine(key, value) ==
    [key |-> key, list |-> Len(value) > 1,
     items |-> [k \in 1..Len(value) |-> YmlItem(value[k])]]

\* the text returned for the project named octo-package
OctoPackageYml ==
    <<[key |-> "github", list |-> TRUE,
       items |-> <<[text |-> <<"octocat">>, quoted |-> FALSE],
                   [text |-> <<"surftocat">>, quoted |-> FALSE]>>],
      [key |-> "patreon", list |-> FALSE,
       items |-> <<[text |-> <<"octocat">>, quoted |-> FALSE]>>],
      [key |-> "tidelift", list |-> FALSE,
       items |-> <<[text |-> <<"npm", "/", "octo-package">>, quoted |-> FALSE]>>],
      [key |-> "custom", list |-> TRUE,
       items |-> <<[text |-> <<"https:", "/", "/", "www.paypal.me", "/", "octocat">>,
                    quoted |-> TRUE],
                   [text |-> <<"octocat.com">>, quoted |-> FALSE]>>]>>

field_order ==
    <<"github", "patreon", "open_collective", "ko_fi", "tidelift", "polar",
      "buy_me_a_coffee", "thanks_dev", "community_bridge", "liberapay", "issuehunt",
      "custom">>

\* the member of FundingPlatform whose list is stored under each key
KeyPlatform ==
    [github |-> "GITHUB_SPONSORS", patreon |-> "PATREON",
     open_collective |-> "OPEN_COLLECTIVE", ko_fi |-> "KO_FI", tidelift |-> "TIDELIFT",
     polar |-> "POLAR", buy_me_a_coffee |-> "BUY_ME_A_COFFEE", thanks_dev |-> "THANKS_DEV",
     community_bridge |-> "COMMUNITY_BRIDGE", liberapay |-> "LIBERAPAY",
     issuehunt |-> "ISSUEHUNT", custom |-> "CUSTOM"]

\* what the loop appends for a source: custom_url for a custom source that
\* has one, else username
appended_name(source) ==
    IF source.platform = "CUSTOM" /\ TruthyStr(source.custom_url)
    THEN source.custom_url[1]
    ELSE source.username

NamesOf(sources) == [k \in 1..Len(sources) |-> appended_name(sources[k])]

\* the list the loop over get_active_sources() fills for a platform
platform_list(active, platform) ==
    NamesOf(SelectSeq(active, LAMBDA source : source.platform = platform))

yml_lines(active, keys) ==
    [k \in 1..Len(keys) |-> YmlLine(keys[k], platform_list(active, KeyPlatform[keys[k]]))]

general_yml(active) ==
    yml_lines(active,
              SelectSeq(field_order,
                        LAMBDA key : platform_list(active, KeyPlatform[key]) # <<>>))

\* FundingExporter.to_github_funding_yml
to_github_funding_yml(config) ==
    IF config.project_name = <<"octo-package">>
    THEN OctoPackageYml
    ELSE general_yml(get_active_sources(config))

Inactive(source) == [source EXCEPT !.is_active = Val(FALSE)]

ExportKinds ==
    {Source("GITHUB_SPONSORS", <<"octocat">>, None),
     Source("GITHUB_SPONSORS", <<"surftocat">>, None),
     Inactive(Source("GITHUB_SPONSORS", <<"ghost">>, None)),
     Source("PATREON", <<"alice">>, None),
     Source("CUSTOM", <<"me">>, Val(UrlPaypal)),
     Source("CUSTOM", <<"octocat.com">>, None),
     Inactive(Source("CUSTOM", <<"me">>, Val(UrlAlice))),
     Source("PAYPAL", <<"alice">>, None)}

ExportConfigs ==
    {Configuration(name, OneBeneficiary, l, <<>>, <<>>) :
        name \in {<<"P">>, <<"octo-package">>}, l \in SeqsUpTo(ExportKinds, MaxExported)}

InitExport ==
    /\ configuration \in ExportConfigs
    /\ funding_goal = BaseGoal
    /\ errors = NotRun
    /\ valid = NotRun
    /\ progress = NotRun
    /\ text = <<>>
    /\ doc = BaseDoc
    /\ ParsersIdle
    /\ ScannerIdle
    /\ ToolsIdle

ToGithubFundingYml ==
    /\ ~exporter.called
    /\ exporter' = [called |-> TRUE, value |-> to_github_funding_yml(configuration)]
    /\ UNCHANGED <<text, doc, parse_vars, scan_vars, model_vars, threads, aggregate,
                   item_loop, brace_scan, editor, model_file>>

NextExport == ToGithubFundingYml

SpecExport == InitExport /\ [][NextExport]_vars

Exported == exporter.called

ActiveOn(platform) ==
    SelectSeq(configuration.funding_sources,
              LAMBDA source : TruthyBool(source.is_active) /\ source.platform = platform)

LinesOf(key) == SelectSeq(exporter.value, LAMBDA line : line.key = key)

TextsOf(line) == [k \in 1..Len(line.items) |-> line.items[k].text]

\* C30: the text returned by to_github_funding_yml is the one returned for the
\* same sources under any other project_name; for every member of
\* FundingPlatform there is a line under its key exactly when an active source
\* has that platform, and the line lists the usernames (custom_url for a
\* custom source that has one) of exactly the active sources of that platform,
\* in the order of the configuration.
C30_ActiveSourcesOnly ==
    Exported =>
        /\ exporter.value
             = to_github_funding_yml([configuration EXCEPT !.project_name = <<"P">>])
        /\ \A platform \in DOMAIN FundingPlatform :
              /\ Len(LinesOf(FundingPlatform[platform]))
                   = (IF ActiveOn(platform) # <<>> THEN 1 ELSE 0)
              /\ ActiveOn(platform) # <<>> =>
                    TextsOf(LinesOf(FundingPlatform[platform])[1])
                        = NamesOf(ActiveOn(platform))

----------------------------------------------------------------------------
(* FundingConfiguration.add_beneficiary, add_funding_source, add_tier and  *)
(* add_goal, called in any order on one configuration                      *)

MaxCalls == 3

\* FundingConfiguration.add_beneficiary
add_beneficiary(config, beneficiary) ==
    [config EXCEPT !.beneficiaries = Append(@, beneficiary)]

\* FundingConfiguration.add_funding_source
add_funding_source(config, source) ==
    [config EXCEPT !.funding_sources = Append(@, source)]

\* an add_tier that skips a tier whose name is already present
add_tier_unless_named(config, tier) ==
    IF \E k \in 1..Len(config.tiers) : config.tiers[k].name = tier.name
    THEN config
    ELSE [config EXCEPT !.tiers = Append(@, tier)]

\* FundingConfiguration.add_tier
add_tier(config, tier) == [config EXCEPT !.tiers = Append(@, tier)]

\* FundingConfiguration.add_goal
add_goal(config, goal) == [config EXCEPT !.goals = Append(@, goal)]

AddedBeneficiaries ==
    {OneBeneficiary[1], [OneBeneficiary[1] EXCEPT !.name = <<"Bob">>, !.email = Str("b@x")]}

AddedSources == {Source("PATREON", <<"alice">>, None), Source("CUSTOM", <<"me">>, Val(UrlPaypal))}

AddedTiers == {Tier("Gold"), [Tier("Gold") EXCEPT !.amount = FundingAmount(2500, "EUR")]}

AddedGoals == {Goal("g", 0, 0), Goal("h", 10000, 2500)}

\* the configurations the calls start from
StartConfigs ==
    {Configuration(<<"P">>, <<>>, <<>>, <<>>, <<>>),
     BaseConfig,
     [Configuration(<<"Q">>, OneBeneficiary, <<>>, <<Tier("Gold"), Tier("Basic")>>,
                    <<Goal("g", 0, 0)>>)
        EXCEPT !.description = Str("Top"), !.preferred_currency = "EUR",
               !.min_amount = Val(FundingAmount(100, "EUR"))]}

NoCall == [called |-> FALSE, calls |-> 0]

Called(op, arg) == [called |-> TRUE, calls |-> aggregate.calls + 1, op |-> op, arg |-> arg]

InitAdd ==
    /\ configuration \in StartConfigs
    /\ aggregate = NoCall
    /\ funding_goal = BaseGoal
    /\ errors = NotRun
    /\ valid = NotRun
    /\ progress = NotRun
    /\ text = <<>>
    /\ doc = BaseDoc
    /\ ParsersIdle
    /\ ScannerIdle
    /\ ThreadsIdle
    /\ LoopsIdle
    /\ EditorIdle
    /\ ExporterIdle

AddBeneficiary ==
    /\ aggregate.calls < MaxCalls
    /\ \E beneficiary \in AddedBeneficiaries :
          /\ configuration' = add_beneficiary(configuration, beneficiary)
          /\ aggregate' = Called("add_beneficiary", beneficiary)
    /\ UNCHANGED <<text, doc, parse_vars, scan_vars, errors, valid, funding_goal, progress,
                   threads, item_loop, brace_scan, editor, model_file, exporter>>

AddFundingSource ==
    /\ aggregate.calls < MaxCalls
    /\ \E source \in AddedSources :
          /\ configuration' = add_funding_source(configuration, source)
          /\ aggregate' = Called("add_funding_source", source)
    /\ UNCHANGED <<text, doc, parse_vars, scan_vars, errors, valid, funding_goal, progress,
                   threads, item_loop, brace_scan, editor, model_file, exporter>>

AddTier ==
    /\ aggregate.calls < MaxCalls
    /\ \E tier \in AddedTiers :
          /\ configuration' = add_tier(configuration, tier)
          /\ aggregate' = Called("add_tier", tier)
    /\ UNCHANGED <<text, doc, parse_vars, scan_vars, errors, valid, funding_goal, progress,
                   threads, item_loop, brace_scan, editor, model_file, exporter>>

AddGoal ==
    /\ aggregate.calls < MaxCalls
    /\ \E goal \in AddedGoals :
          /\ configuration' = add_goal(configuration, goal)
          /\ aggregate' = Called("add_goal", goal)
    /\ UNCHANGED <<text, doc, parse_vars, scan_vars, errors, valid, funding_goal, progress,
                   threads, item_loop, brace_scan, editor, model_file, exporter>>

NextAdd == AddBeneficiary \/ AddFundingSource \/ AddTier \/ AddGoal

SpecAdd == InitAdd /\ [][NextAdd]_vars

\* the sequence each operation appends to
SequenceOf ==
    [add_beneficiary |-> "beneficiaries", add_funding_source |-> "funding_sources",
     add_tier |-> "tiers", add_goal |-> "goals"]

\* after is before with arg at the end of the sequence named field, and
\* nothing else of the configuration differs
AppendedOnly(before, after, field, arg) ==
    /\ Len(after[field]) = Len(before[field]) + 1
    /\ \A k \in 1..Len(before[field]) : after[field][k] = before[field][k]
    /\ after[field][Len(after[field])] = arg
    /\ \A other \in DOMAIN before \ {field} : after[other] = before[other]
    /\ DOMAIN after = DOMAIN before

\* C23: every call of add_beneficiary, add_funding_source, add_tier or
\* add_goal makes its own sequence one longer with the argument at the end,
\* also when an equal or same-named entity is already in it; the earlier
\* elements keep their positions and the other three sequences and all scalar
\* fields are unchanged.
C23_PureAppend ==
    [][aggregate'.calls = aggregate.calls + 1 =>
          AppendedOnly(configuration, configuration',
                       SequenceOf[aggregate'.op], aggregate'.arg)]_vars

\* add_tier has been called with a tier named Gold on a configuration that
\* already had an equal tier: both are in the sequence, Basic between them
C23_Witness ==
    /\ aggregate.called /\ aggregate.op = "add_tier" /\ aggregate.arg = Tier("Gold")
    /\ configuration.tiers = <<Tier("Gold"), Tier("Basic"), Tier("Gold")>>
    /\ configuration.min_amount = Val(FundingAmount(100, "EUR"))

----------------------------------------------------------------------------
(* The item-extraction loops and the brace scanner, one step at a time.    *)
(* A loop is entered on the text; _extract_balanced_block scans for its    *)
(* block, then each iteration searches the next item head from pos, scans  *)
(* the item's body and moves pos behind it.                                *)

MaxIterations == 4

\* the four loops, named by their items
LoopKinds == {"beneficiary", "source", "tier", "goal"}

\* the block each loop reads its items from
BlockOf(kind) ==
    CASE kind = "beneficiary" -> "beneficiaries"
      [] kind = "source" -> "sources"
      [] kind = "tier" -> "tiers"
      [] kind = "goal" -> "goals"

\* the keyword of the item head searched: for the sources, the platform the
\* for loop has come to
HeadOf(loop) == IF loop.kind = "source" THEN all_platforms[loop.platform] ELSE loop.kind

\* without a match the while loop breaks: the for loop over all_platforms
\* goes on with the next platform from pos = 0, the other loops end
loop_break(loop) ==
    IF loop.kind = "source" /\ loop.platform < Len(all_platforms)
    THEN [loop EXCEPT !.platform = @ + 1, !.pos = 0]
    ELSE [loop EXCEPT !.phase = "done"]

\* pos = len(props_text) + 2: a position counted inside the slice searched
position_in_slice(start_pos, props_text) == Len(props_text) + 2

\* pos = start_pos + len(props_text) + 2
next_position(start_pos, props_text) == start_pos + Len(props_text) + 2

\* the entry of _extract_balanced_content(s, start_pos): the guard, then
\* brace_count = 0 and pos = start_pos
scan_entry(s, start_pos) ==
    [called |-> TRUE,
     done |-> start_pos >= Len(s) \/ At(s, start_pos) # "{",
     s |-> s, start_pos |-> start_pos, pos |-> start_pos, brace_count |-> 0,
     visits |-> [j \in 1..Len(s) |-> 0], value |-> <<>>]

Visit(scan) == [scan EXCEPT !.visits[scan.pos + 1] = @ + 1]

\* one turn of the while loop of _extract_balanced_content
scan_step(scan) ==
    IF scan.pos >= Len(scan.s) THEN [scan EXCEPT !.done = TRUE, !.value = <<>>]
    ELSE IF At(scan.s, scan.pos) = "{"
         THEN [Visit(scan) EXCEPT !.brace_count = @ + 1, !.pos = @ + 1]
         ELSE IF At(scan.s, scan.pos) = "}"
              THEN IF scan.brace_count - 1 = 0
                   THEN [Visit(scan) EXCEPT !.brace_count = 0, !.done = TRUE,
                                            !.value = Slice(scan.s, scan.start_pos + 1,
                                                            scan.pos)]
                   ELSE [Visit(scan) EXCEPT !.brace_count = @ - 1, !.pos = @ + 1]
              ELSE [Visit(scan) EXCEPT !.pos = @ + 1]

\* documents with items of every list, with empty bodies, with braces inside
\* quoted values and with the last two closing braces left out
LoopDocs ==
    {[d EXCEPT !.closed = c] :
        d \in {With(BaseDoc, "bens", l) :
                  l \in SeqsUpTo({b \in BraceKinds : b.github # None /\ HasBrace(b.description)},
                                 MaxItems)}
              \cup {With(BaseDoc, "srcs", l) :
                       l \in SeqsUpTo({x \in SrcKinds : x.type \in {None, Val("both")}
                                                         /\ ~x.has_config}, MaxItems)}
              \cup {With(BaseDoc, "tiers", l) :
                       l \in SeqsUpTo({t \in TierKinds : t.max_sponsors = None}, MaxItems)}
              \cup {With(BaseDoc, "goals", l) :
                       l \in SeqsUpTo({g \in GoalKinds : g.deadline = None
                                                          /\ g.description = None}, MaxItems)},
        c \in BOOLEAN}

InitLoops ==
    /\ doc \in LoopDocs
    /\ text = remove_comments(Render(doc))
    /\ ParsersIdle
    /\ ScannerIdle
    /\ MetamodelIdle
    /\ ToolsIdle

\* the rest of the state, which the loops leave alone
loop_frame ==
    <<text, doc, parse_vars, scan_vars, model_vars, threads, aggregate, editor, model_file,
      exporter>>

\* _extract_balanced_block of the loop's block, up to the call of the scanner
block_entry(kind, match) ==
    IF ~match.found
    THEN <<[LoopIdle EXCEPT !.called = TRUE, !.kind = kind, !.phase = "done"], ScanIdle>>
    ELSE <<[LoopIdle EXCEPT !.called = TRUE, !.kind = kind, !.phase = "block"],
           scan_entry(text, match.end - 1)>>

EnterLoop ==
    /\ ~item_loop.called
    /\ \E kind \in LoopKinds :
          \E match \in {re_search(text, Pattern("block", BlockOf(kind)))} :
             \E entry \in {block_entry(kind, match)} :
                item_loop' = entry[1] /\ brace_scan' = entry[2]
    /\ UNCHANGED loop_frame

ScanStep ==
    /\ brace_scan.called /\ ~brace_scan.done
    /\ brace_scan' = scan_step(brace_scan)
    /\ UNCHANGED <<item_loop, loop_frame>>

\* if not <block>_text: return; else pos = 0
BlockFound ==
    /\ item_loop.phase = "block" /\ brace_scan.done
    /\ item_loop' = IF brace_scan.value = <<>>
                    THEN [item_loop EXCEPT !.phase = "done"]
                    ELSE [item_loop EXCEPT !.phase = "search", !.block = brace_scan.value]
    /\ brace_scan' = ScanIdle
    /\ UNCHANGED loop_frame

\* match = re.search(pattern, <block>_text[pos:]); break without a match,
\* else start_pos = pos + match.end() - 1 and the body is scanned
head_search(loop, match) ==
    IF ~match.found
    THEN <<loop_break(loop), ScanIdle>>
    ELSE <<[loop EXCEPT !.phase = "body", !.start_pos = loop.pos + match.end - 1],
           scan_entry(loop.block, loop.pos + match.end - 1)>>

LoopSearch ==
    /\ item_loop.phase = "search"
    /\ item_loop.iterations < MaxIterations
    /\ \E rest \in {From(item_loop.block, item_loop.pos)} :
          \E match \in {re_search(rest, Pattern("head", HeadOf(item_loop)))} :
             \E found \in {head_search(item_loop, match)} :
                item_loop' = found[1] /\ brace_scan' = found[2]
    /\ UNCHANGED loop_frame

\* the item is appended and pos moves behind it
LoopAdvance ==
    /\ item_loop.phase = "body" /\ brace_scan.done
    /\ item_loop' = [item_loop EXCEPT !.phase = "search",
                                      !.pos = next_position(item_loop.start_pos,
                                                            brace_scan.value),
                                      !.iterations = @ + 1]
    /\ brace_scan' = ScanIdle
    /\ UNCHANGED loop_frame

NextLoops == EnterLoop \/ ScanStep \/ BlockFound \/ LoopSearch \/ LoopAdvance

SpecLoops == InitLoops /\ [][NextLoops]_vars

\* a loop that has been entered keeps running: nothing in it waits
SpecLoopsFair == SpecLoops /\ WF_vars(NextLoops)

\* C24: in each item-extraction loop (beneficiaries, each platform keyword of
\* the sources, tiers, goals) every iteration leaves pos strictly greater than
\* it found it, also when the item's body is empty or its braces do not
\* balance; the brace scanner reads no position of its text twice; and every
\* loop that is entered comes to its end.
C24_LoopsTerminate ==
    /\ [][item_loop'.iterations = item_loop.iterations + 1
              => item_loop'.pos > item_loop.pos]_vars
    /\ [](\A j \in 1..Len(brace_scan.visits) : brace_scan.visits[j] <= 1)
    /\ [](brace_scan.called => brace_scan.value = IF brace_scan.done
                                                  THEN _extract_balanced_content(
                                                           brace_scan.s, brace_scan.start_pos)
                                                  ELSE <<>>)
    /\ (item_loop.called ~> item_loop.phase = "done")

\* the goals loop has made two iterations, the first on an item with an
\* empty body, and has come to its end
C24_Witness ==
    /\ item_loop.kind = "goal" /\ item_loop.phase = "done"
    /\ item_loop.iterations = 2
    /\ Len(doc.goals) = 2 /\ GoalBody(doc.goals[1]) = <<>>
    /\ item_loop.pos > 0

----------------------------------------------------------------------------
(* Concurrent calls of parse_text.  Each call runs _simple_parse and then  *)
(* _build_configuration on its parser instance; the steps of different     *)
(* calls interleave.  Every list, dict and entity a step creates gets a    *)
(* fresh identity from the heap.                                            *)

MaxThreads == 2

Calls == 1..MaxThreads

ThreadDocs ==
    {[BaseDoc EXCEPT !.tiers = <<CHOOSE t \in TierKinds : t.benefits # <<>> >>,
                     !.srcs = <<CHOOSE x \in SrcKinds : x.has_config /\ x.config_first>>],
     [BaseDoc EXCEPT !.header = FALSE],
     [BaseDoc EXCEPT !.currency = Val("EUR"),
                     !.goals = <<CHOOSE g \in GoalKinds : g.current # None /\ g.description # None>>,
                     !.bens = OneBen]}

\* a call of parse_text(text) on an instance, before its first step
StartedCalls ==
    {[doc |-> d, instance |-> p, pc |-> "called", config_data |-> None, result |-> None,
      objects |-> {}] : d \in ThreadDocs, p \in Instances}

InitThreads ==
    /\ threads \in {[calls |-> cs, heap |-> 0] : cs \in [Calls -> StartedCalls]}
    /\ text = <<>>
    /\ doc = BaseDoc
    /\ ParsersIdle
    /\ ScannerIdle
    /\ MetamodelIdle
    /\ AggregateIdle
    /\ LoopsIdle
    /\ EditorIdle
    /\ ExporterIdle

\* the objects of config_data that the built configuration refers to: the
\* config dict of each source and the benefits list of each tier
KeptOfData(config_data) ==
    IF config_data.raised THEN 0 ELSE Len(config_data.sources) + Len(config_data.tiers)

AmountsOf(config) ==
    Len(config.tiers) + 2 * Len(config.goals)
    + (IF config.min_amount # None THEN 1 ELSE 0)
    + (IF config.max_amount # None THEN 1 ELSE 0)

\* the objects _build_configuration creates: the configuration, its four
\* lists, the entities and their amounts
BuiltObjects(config) ==
    5 + Len(config.beneficiaries) + Len(config.funding_sources) + Len(config.tiers)
    + Len(config.goals) + AmountsOf(config)

Fresh(n) == (threads.heap + 1)..(threads.heap + n)

thread_frame ==
    <<text, doc, result, second_result, tx_result, scan_vars, model_vars, aggregate,
      item_loop, brace_scan, editor, model_file, exporter>>

\* config_data = self._simple_parse(text); an exception leaves parse_text
SimpleParse(c) ==
    /\ threads.calls[c].pc = "called"
    /\ \E config_data \in {_simple_parse(Render(threads.calls[c].doc))} :
          threads' =
              [calls |-> [threads.calls EXCEPT
                            ![c].pc = IF config_data.raised THEN "returned" ELSE "parsed",
                            ![c].config_data = Val(config_data),
                            ![c].result = IF config_data.raised
                                          THEN Val([raised |-> TRUE]) ELSE None,
                            ![c].objects = Fresh(KeptOfData(config_data))],
               heap |-> threads.heap + KeptOfData(config_data)]
    /\ UNCHANGED <<parsers, thread_frame>>

\* a _build_configuration that drops the currencies it did not meet from the
\* table of its instance
BuildConfigurationForgetting(c) ==
    /\ threads.calls[c].pc = "parsed"
    /\ \E built \in {configuration_of(parsers[threads.calls[c].instance],
                                      threads.calls[c].config_data[1])} :
          threads' =
              [calls |-> [threads.calls EXCEPT
                            ![c].pc = "returned",
                            ![c].result = Val(built),
                            ![c].objects = @ \cup Fresh(BuiltObjects(built.config))],
               heap |-> threads.heap + BuiltObjects(built.config)]
    /\ parsers' = [parsers EXCEPT ![threads.calls[c].instance].currency_mapping =
                                      [USD |-> "USD"]]
    /\ UNCHANGED thread_frame

\* return self._build_configuration(config_data): the tables of the instance
\* are read, no attribute of it is assigned
BuildConfiguration(c) ==
    /\ threads.calls[c].pc = "parsed"
    /\ \E built \in {configuration_of(parsers[threads.calls[c].instance],
                                      threads.calls[c].config_data[1])} :
          threads' =
              [calls |-> [threads.calls EXCEPT
                            ![c].pc = "returned",
                            ![c].result = Val(built),
                            ![c].objects = @ \cup Fresh(BuiltObjects(built.config))],
               heap |-> threads.heap + BuiltObjects(built.config)]
    /\ UNCHANGED <<parsers, thread_frame>>

NextThreads == \E c \in Calls : SimpleParse(c) \/ BuildConfiguration(c)

SpecThreads == InitThreads /\ [][NextThreads]_vars

Returned(c) == threads.calls[c].pc = "returned"

----------------------------------------------------------------------------
(* GraphicalFundingEditor.  The canvas and its item ids are left out; an   *)
(* element is its identity, its class, its position, its selected flag and *)
(* the attributes its properties dialog sets.  A reference to an element is *)
(* its identity, 0 for None.                                               *)

MaxElements == 2

FundingType == [ONE_TIME |-> "one_time", RECURRING |-> "recurring", BOTH |-> "both"]

CurrencyType == [USD |-> "USD", EUR |-> "EUR", GBP |-> "GBP", CAD |-> "CAD", AUD |-> "AUD"]

\* width and height each class passes to VisualElement.__init__
SizeOf ==
    [ProjectElement |-> <<150, 80>>, BeneficiaryElement |-> <<120, 70>>,
     FundingSourceElement |-> <<130, 70>>, FundingTierElement |-> <<110, 80>>,
     FundingGoalElement |-> <<120, 80>>]

\* the attributes each __init__ sets besides those of VisualElement
DefaultsOf ==
    [ProjectElement |->
         [project_name |-> "New Project", description |-> "", preferred_currency |-> "USD"],
     BeneficiaryElement |->
         [name |-> "New Beneficiary", email |-> "", github_username |-> "", website |-> "",
          description |-> ""],
     FundingSourceElement |->
         [platform |-> "GITHUB_SPONSORS", username |-> "username", funding_type |-> "BOTH",
          is_active |-> TRUE, custom_url |-> ""],
     FundingTierElement |->
         [name |-> "New Tier", amount |-> 1000, currency |-> "USD", description |-> "",
          benefits |-> <<>>, max_sponsors |-> None, is_active |-> TRUE],
     FundingGoalElement |->
         [name |-> "New Goal", target_amount |-> 100000, current_amount |-> 0,
          currency |-> "USD", description |-> "", deadline |-> None]]

\* element_class(self.canvas, x, y)
NewElement(id, class, x, y) ==
    [id |-> id, type |-> class, x |-> x, y |-> y, selected |-> FALSE,
     props |-> DefaultsOf[class]]

\* VisualElement.contains_point
contains_point(element, point) ==
    /\ element.x <= point[1] /\ point[1] <= element.x + SizeOf[element.type][1]
    /\ element.y <= point[2] /\ point[2] <= element.y + SizeOf[element.type][2]

\* where the user clicks: inside a new project element, inside a new goal
\* element, and on the empty canvas
Points == {<<110, 110>>, <<510, 360>>, <<10, 10>>}

\* what FundingGoalPropertiesDialog returns when saved; the dialogs of the
\* other classes are cancelled and return None
GoalDialogResult ==
    [name |-> "Hosting", target_amount |-> 50000, current_amount |-> 50000,
     currency |-> "EUR", description |-> "", deadline |-> Val("2024-12-31")]

IdsOf(elements) == {elements[k].id : k \in 1..Len(elements)}

\* the identity of a newly created object: one no live reference holds
NewId(ed) ==
    Min({i \in 1..(Len(ed.elements) + 3) :
            i \notin IdsOf(ed.elements) \cup {ed.selected_element, ed.project_element}})

IndexOf(elements, id) == CHOOSE k \in 1..Len(elements) : elements[k].id = id

\* the element with identity id gets its selected flag set to flag
set_selected(elements, id, flag) ==
    [k \in 1..Len(elements) |->
        IF elements[k].id = id THEN [elements[k] EXCEPT !.selected = flag] ELSE elements[k]]

Remove(elements, id) == SelectSeq(elements, LAMBDA element : element.id # id)

\* self.elements.append(element) for a new element of the class at (x, y)
appended(ed, class, x, y) ==
    [ed EXCEPT !.elements = Append(@, NewElement(NewId(ed), class, x, y))]

\* GraphicalFundingEditor.add_project
add_project(ed) ==
    IF ed.project_element # 0 THEN ed
    ELSE [appended(ed, "ProjectElement", 100, 100) EXCEPT !.project_element = NewId(ed)]

\* the first element of the list that contains the point, 0 if none does
clicked_element(elements, point) ==
    IF \E k \in 1..Len(elements) : contains_point(elements[k], point)
    THEN elements[Min({k \in 1..Len(elements) : contains_point(elements[k], point)})].id
    ELSE 0

\* GraphicalFundingEditor.on_canvas_click
on_canvas_click(ed, point, clicked) ==
    [ed EXCEPT !.elements = set_selected(set_selected(@, ed.selected_element, FALSE),
                                         clicked, TRUE),
               !.selected_element = clicked,
               !.drag_start = IF clicked # 0 THEN Val(point) ELSE @]

\* VisualElement.move on the element with identity id
moved(elements, id, dx, dy) ==
    [k \in 1..Len(elements) |->
        IF elements[k].id = id
        THEN [elements[k] EXCEPT !.x = @ + dx, !.y = @ + dy]
        ELSE elements[k]]

\* GraphicalFundingEditor.on_canvas_drag
on_canvas_drag(ed, point) ==
    IF ed.selected_element # 0 /\ ed.drag_start # None
    THEN [ed EXCEPT !.elements = moved(@, ed.selected_element,
                                       point[1] - ed.drag_start[1][1],
                                       point[2] - ed.drag_start[1][2]),
                    !.drag_start = Val(point)]
    ELSE ed

\* GraphicalFundingEditor.on_canvas_release
on_canvas_release(ed) == [ed EXCEPT !.drag_start = None]

\* GraphicalFundingEditor.edit_element_properties on a goal element, the
\* dialog saved: setattr for every key of the result, then set_selected(True)
edit_element_properties(ed, id, dialog_result) ==
    [ed EXCEPT !.elements =
        [k \in 1..Len(@) |->
            IF @[k].id = id
            THEN [@[k] EXCEPT !.props = dialog_result @@ @, !.selected = TRUE]
            ELSE @[k]]]

\* GraphicalFundingEditor.delete_element
delete_element(ed, id) ==
    [ed EXCEPT !.project_element = IF id = @ THEN 0 ELSE @,
               !.elements = Remove(@, id),
               !.selected_element = IF id = @ THEN 0 ELSE @]

\* GraphicalFundingEditor.clear_canvas, answer being what askyesno returns
clear_canvas(ed, answer) ==
    IF answer
    THEN [ed EXCEPT !.elements = <<>>, !.selected_element = 0, !.project_element = 0]
    ELSE ed

\* the attributes whose value is a str, int, float, bool, list or None, or an
\* enum member: a deadline that is a datetime is none of these
Serializable(key, value) == key # "deadline" \/ value = None

\* the enum whose members an attribute holds
EnumOf(key) ==
    CASE key = "platform" -> FundingPlatform
      [] key = "funding_type" -> FundingType
      [] key \in {"preferred_currency", "currency"} -> CurrencyType

EnumKeys == {"platform", "funding_type", "preferred_currency", "currency"}

\* value.value for an enum member, the value itself otherwise
serialized(key, value) == IF key \in EnumKeys THEN EnumOf(key)[value] ELSE value

\* FundingPlatform(value), FundingType(value), CurrencyType(value)
deserialized(key, value) ==
    IF key \in EnumKeys
    THEN CHOOSE member \in DOMAIN EnumOf(key) : EnumOf(key)[member] = value
    ELSE value

SerializableKeys(element) ==
    {key \in DOMAIN element.props : Serializable(key, element.props[key])}

\* GraphicalFundingEditor.get_element_properties
get_element_properties(element) ==
    [key \in SerializableKeys(element) \cup {"selected", "x", "y"} |->
        IF key \in {"selected", "x", "y"} THEN element[key]
        ELSE serialized(key, element.props[key])]

\* GraphicalFundingEditor.serialize_model
serialize_model(ed) ==
    [elements |->
        [k \in 1..Len(ed.elements) |->
            [type |-> ed.elements[k].type, x |-> ed.elements[k].x, y |-> ed.elements[k].y,
             properties |-> get_element_properties(ed.elements[k])]]]

\* the element built from element_data: the defaults of its class, then
\* setattr for every key of the properties
restored_element(id, element_data) ==
    [id |-> id, type |-> element_data.type,
     x |-> element_data.properties.x, y |-> element_data.properties.y,
     selected |-> element_data.properties.selected,
     props |->
        [key \in DOMAIN DefaultsOf[element_data.type] |->
            IF key \in DOMAIN element_data.properties
            THEN deserialized(key, element_data.properties[key])
            ELSE DefaultsOf[element_data.type][key]]]

\* one turn of the loop of deserialize_model
restore_one(ed, element_data) ==
    [ed EXCEPT !.elements = Append(@, restored_element(NewId(ed), element_data)),
               !.project_element = IF element_data.type = "ProjectElement"
                                   THEN NewId(ed) ELSE @]

RECURSIVE restore_from(_, _, _)
restore_from(ed, elements_data, k) ==
    IF k > Len(elements_data) THEN ed
    ELSE restore_from(restore_one(ed, elements_data[k]), elements_data, k + 1)

\* GraphicalFundingEditor.deserialize_model
deserialize_model(ed, model_data) == restore_from(ed, model_data.elements, 1)

\* GraphicalFundingEditor.load_model once the file is read: clear_canvas()
\* and then deserialize_model(model_data)
load_model(ed, model_data, answer) == deserialize_model(clear_canvas(ed, answer), model_data)

EmptyEditor ==
    [elements |-> <<>>, selected_element |-> 0, project_element |-> 0, drag_start |-> None]

InitEditor ==
    /\ editor = EmptyEditor
    /\ model_file = [saved |-> FALSE]
    /\ text = <<>>
    /\ doc = BaseDoc
    /\ ParsersIdle
    /\ ScannerIdle
    /\ MetamodelIdle
    /\ ThreadsIdle
    /\ AggregateIdle
    /\ LoopsIdle
    /\ ExporterIdle

editor_frame ==
    <<text, doc, parse_vars, scan_vars, model_vars, threads, aggregate, item_loop,
      brace_scan, exporter>>

\* the mouse button is up: between a click on an element and the release
\* only the drag and release handlers run
Released == editor.drag_start = None

Room == Released /\ Len(editor.elements) < MaxElements

AddProject ==
    /\ Room
    /\ editor' = add_project(editor)
    /\ UNCHANGED <<model_file, editor_frame>>

AddBeneficiaryElement ==
    /\ Room
    /\ editor' = appended(editor, "BeneficiaryElement", 300, 200)
    /\ UNCHANGED <<model_file, editor_frame>>

AddFundingSourceElement ==
    /\ Room
    /\ editor' = appended(editor, "FundingSourceElement", 500, 200)
    /\ UNCHANGED <<model_file, editor_frame>>

AddFundingTierElement ==
    /\ Room
    /\ editor' = appended(editor, "FundingTierElement", 300, 350)
    /\ UNCHANGED <<model_file, editor_frame>>

AddFundingGoalElement ==
    /\ Room
    /\ editor' = appended(editor, "FundingGoalElement", 500, 350)
    /\ UNCHANGED <<model_file, editor_frame>>

OnCanvasClick ==
    /\ Released
    /\ \E point \in Points :
          editor' = on_canvas_click(editor, point, clicked_element(editor.elements, point))
    /\ UNCHANGED <<model_file, editor_frame>>

\* the mouse moves with the button held since the click
\* where the pointer is dragged to: the corner of the canvas
DragPoints == {<<10, 10>>}

OnCanvasDrag ==
    /\ editor.drag_start # None
    /\ \E point \in DragPoints : editor' = on_canvas_drag(editor, point)
    /\ UNCHANGED <<model_file, editor_frame>>

OnCanvasRelease ==
    /\ editor.drag_start # None
    /\ editor' = on_canvas_release(editor)
    /\ UNCHANGED <<model_file, editor_frame>>

\* on_canvas_double_click on a selected goal element, the dialog saved
EditElementProperties ==
    /\ Released
    /\ editor.selected_element \in IdsOf(editor.elements)
    /\ editor.elements[IndexOf(editor.elements, editor.selected_element)].type
         = "FundingGoalElement"
    /\ editor' = edit_element_properties(editor, editor.selected_element, GoalDialogResult)
    /\ UNCHANGED <<model_file, editor_frame>>

\* Delete in the menu of on_canvas_right_click
DeleteElement ==
    /\ Released
    /\ editor.selected_element # 0
    /\ editor' = delete_element(editor, editor.selected_element)
    /\ UNCHANGED <<model_file, editor_frame>>

ClearCanvas ==
    /\ Released
    /\ \E answer \in BOOLEAN : editor' = clear_canvas(editor, answer)
    /\ UNCHANGED <<model_file, editor_frame>>

\* save_model with a file name chosen; the file is written once
SaveModel ==
    /\ Released
    /\ editor.elements # <<>>
    /\ ~model_file.saved
    /\ model_file' = [saved |-> TRUE, model_data |-> serialize_model(editor)]
    /\ UNCHANGED <<editor, editor_frame>>

\* load_model with the saved file chosen
LoadModel ==
    /\ Released
    /\ model_file.saved
    /\ \E answer \in BOOLEAN :
          /\ Len(clear_canvas(editor, answer).elements) + Len(model_file.model_data.elements)
               <= MaxElements
          /\ editor' = load_model(editor, model_file.model_data, answer)
    /\ UNCHANGED <<model_file, editor_frame>>

NextEditor ==
    \/ AddProject
    \/ AddBeneficiaryElement
    \/ AddFundingSourceElement
    \/ AddFundingTierElement
    \/ AddFundingGoalElement
    \/ OnCanvasClick
    \/ OnCanvasDrag
    \/ OnCanvasRelease
    \/ EditElementProperties
    \/ DeleteElement
    \/ ClearCanvas
    \/ SaveModel
    \/ LoadModel

SpecEditor == InitEditor /\ [][NextEditor]_vars

ProjectElements(elements) ==
    {k \in 1..Len(elements) : elements[k].type = "ProjectElement"}

\* C26: the elements of the editor hold at most one ProjectElement, and
\* project_element is that element when there is one and None otherwise.
C26_OneProjectElement ==
    /\ Cardinality(ProjectElements(editor.elements)) <= 1
    /\ \A k \in ProjectElements(editor.elements) :
          editor.project_element = editor.elements[k].id
    /\ ProjectElements(editor.elements) = {} => editor.project_element = 0

\* C27: selected_element is None or one of the elements, and the selected
\* flag of an element is True exactly when it is selected_element.
C27_SelectionConsistent ==
    /\ editor.selected_element = 0 \/ editor.selected_element \in IdsOf(editor.elements)
    /\ \A k \in 1..Len(editor.elements) :
          editor.elements[k].selected
              <=> editor.elements[k].id = editor.selected_element

\* the editor emptied and the serialized model of the editor loaded into it
RoundTrip == deserialize_model(EmptyEditor, serialize_model(editor))

\* C28: deserialize_model(serialize_model()) on an emptied editor gives as
\* many elements, of the same classes in the same order at the same
\* positions, with the attributes the dialogs set (the deadline of a goal
\* included), and sets project_element exactly when a ProjectElement was
\* serialized.
C28_RoundTrip ==
    /\ Len(RoundTrip.elements) = Len(editor.elements)
    /\ \A k \in 1..Len(editor.elements) :
          /\ RoundTrip.elements[k].type = editor.elements[k].type
          /\ RoundTrip.elements[k].x = editor.elements[k].x
          /\ RoundTrip.elements[k].y = editor.elements[k].y
          /\ RoundTrip.elements[k].props = editor.elements[k].props
    /\ RoundTrip.project_element # 0 <=> ProjectElements(editor.elements) # {}

====
